---- MODULE Spec2Model ----
(***************************************************************************)
(* A model of the two calculation engines of the stock analysis backend:   *)
(*   backend/analysis/fundamental_analysis.py  (FundamentalAnalysis)       *)
(*   backend/analysis/technical_indicators.py  (TechnicalIndicators)       *)
(*                                                                         *)
(* Numbers.  The code computes with IEEE doubles.  The model computes with *)
(* exact rationals extended by the three special doubles NaN, +inf and     *)
(* -inf, and feeds the engines small integers only, for which the sums and *)
(* differences the code forms are exact and every comparison against a     *)
(* threshold has the same outcome as on the rational value.  Python's None *)
(* is a fourth tag, "none".                                                *)
(***************************************************************************)
EXTENDS Integers, Sequences, FiniteSets, TLC

VARIABLES pc, req, ret, df, fetcher, cache, now

vars == <<pc, req, ret, df, fetcher, cache, now>>

\* The data fetcher, its cache directory and the clock: the engines neither
\* read nor write them.
fetcher_vars == <<fetcher, cache, now>>

(***************************************************************************)
(* Extended rationals                                                      *)
(***************************************************************************)
Abs(x) == IF x < 0 THEN -x ELSE x

RECURSIVE Gcd(_, _)
Gcd(a, b) == IF b = 0 THEN a ELSE Gcd(b, a % b)

\* The finite double n/d (d # 0), in lowest terms with a positive denominator.
Fin(n, d) ==
    LET g == Gcd(Abs(n), Abs(d))
        s == IF d < 0 THEN -1 ELSE 1
    IN  [k |-> "fin", n |-> (s * n) \div g, d |-> (s * d) \div g]

NaN  == [k |-> "nan",  n |-> 0, d |-> 1]
PInf == [k |-> "pinf", n |-> 0, d |-> 1]
NInf == [k |-> "ninf", n |-> 0, d |-> 1]
None == [k |-> "none", n |-> 0, d |-> 1]

Num(i) == Fin(i, 1)

IsFin(x)  == x.k = "fin"
IsNaN(x)  == x.k = "nan"
IsInf(x)  == x.k \in {"pinf", "ninf"}
IsNone(x) == x.k = "none"
IsZero(x) == IsFin(x) /\ x.n = 0

\* -1, 0, 1 for a non-NaN value.
Sgn(x) ==
    CASE x.k = "pinf" -> 1
      [] x.k = "ninf" -> -1
      [] OTHER        -> IF x.n > 0 THEN 1 ELSE IF x.n < 0 THEN -1 ELSE 0

InfOf(s) == IF s > 0 THEN PInf ELSE NInf

Neg(x) ==
    CASE x.k = "fin"  -> Fin(-x.n, x.d)
      [] x.k = "pinf" -> NInf
      [] x.k = "ninf" -> PInf
      [] OTHER        -> x

NAbs(x) == IF IsNaN(x) THEN NaN ELSE IF Sgn(x) < 0 THEN Neg(x) ELSE x

Add(x, y) ==
    CASE IsNaN(x) \/ IsNaN(y) -> NaN
      [] IsFin(x) /\ IsFin(y) ->
            LET g == Gcd(x.d, y.d)
            IN  Fin(x.n * (y.d \div g) + y.n * (x.d \div g), x.d * (y.d \div g))
      [] IsInf(x) /\ IsInf(y) -> IF x.k = y.k THEN x ELSE NaN
      [] IsInf(x)             -> x
      [] OTHER                -> y

Sub(x, y) == Add(x, Neg(y))

Mul(x, y) ==
    CASE IsNaN(x) \/ IsNaN(y) -> NaN
      [] IsFin(x) /\ IsFin(y) ->
            LET g1 == Gcd(Abs(x.n), y.d)
                g2 == Gcd(Abs(y.n), x.d)
            IN  Fin((x.n \div g1) * (y.n \div g2), (x.d \div g2) * (y.d \div g1))
      [] IsZero(x) \/ IsZero(y) -> NaN
      [] OTHER                  -> InfOf(Sgn(x) * Sgn(y))

\* Division of doubles as numpy performs it: x/0 is +-inf, 0/0 is NaN.
Div(x, y) ==
    CASE IsNaN(x) \/ IsNaN(y) -> NaN
      [] IsInf(x) /\ IsInf(y) -> NaN
      [] IsInf(x)             -> InfOf(Sgn(x) * (IF Sgn(y) < 0 THEN -1 ELSE 1))
      [] IsInf(y)             -> Num(0)
      [] IsZero(y)            -> IF IsZero(x) THEN NaN ELSE InfOf(Sgn(x))
      [] OTHER                ->
            LET g1 == Gcd(Abs(x.n), Abs(y.n))
                g2 == Gcd(x.d, y.d)
            IN  Fin((x.n \div g1) * (y.d \div g2), (x.d \div g2) * (y.n \div g1))

\* x < y on doubles: false as soon as one side is NaN.
Lt(x, y) ==
    CASE IsNaN(x) \/ IsNaN(y) -> FALSE
      [] IsFin(x) /\ IsFin(y) -> x.n * y.d < y.n * x.d
      [] x.k = y.k            -> FALSE
      [] OTHER                -> x.k = "ninf" \/ y.k = "pinf"

Gt(x, y) == Lt(y, x)
Le(x, y) == ~IsNaN(x) /\ ~IsNaN(y) /\ ~Lt(y, x)

\* Python's round(x, 2) of a finite double: to the nearest hundredth, a tie
\* to the even one.
Round2(x) ==
    LET m == x.n * 100
        q == m \div x.d
        r == m - q * x.d
        up == 2 * r > x.d \/ (2 * r = x.d /\ q % 2 = 1)
    IN  Fin(IF up THEN q + 1 ELSE q, 100)

\* Python truthiness of an Optional[float]: None and 0.0 are falsy.
Truthy(x) == ~IsNone(x) /\ ~IsZero(x)

(***************************************************************************)
(* FundamentalAnalysis: the nine ratio functions                           *)
(***************************************************************************)
Hundred == Num(100)

pe_ratio(price, eps) ==
    IF IsZero(eps) THEN None ELSE Div(price, eps)

pb_ratio(price, book_value_per_share) ==
    IF IsZero(book_value_per_share) THEN None ELSE Div(price, book_value_per_share)

peg_ratio(pe, earnings_growth_rate) ==
    IF IsZero(earnings_growth_rate) THEN None ELSE Div(pe, earnings_growth_rate)

roe(net_income, shareholders_equity) ==
    IF IsZero(shareholders_equity) THEN None
    ELSE Mul(Div(net_income, shareholders_equity), Hundred)

roa(net_income, total_assets) ==
    IF IsZero(total_assets) THEN None
    ELSE Mul(Div(net_income, total_assets), Hundred)

debt_to_equity(total_debt, shareholders_equity) ==
    IF IsZero(shareholders_equity) THEN None ELSE Div(total_debt, shareholders_equity)

current_ratio(current_assets, current_liabilities) ==
    IF IsZero(current_liabilities) THEN None
    ELSE Div(current_assets, current_liabilities)

dividend_yield(annual_dividend, price) ==
    IF IsZero(price) THEN None ELSE Mul(Div(annual_dividend, price), Hundred)

\* Mutant: the denominator keeps its sign.
eps_growth_signed(current_eps, previous_eps) ==
    IF IsZero(previous_eps) THEN None
    ELSE Mul(Div(Sub(current_eps, previous_eps), previous_eps), Hundred)

eps_growth(current_eps, previous_eps) ==
    IF IsZero(previous_eps) THEN None
    ELSE Mul(Div(Sub(current_eps, previous_eps), NAbs(previous_eps)), Hundred)

RatioFunctions ==
    {"pe_ratio", "pb_ratio", "peg_ratio", "roe", "roa", "debt_to_equity",
     "current_ratio", "dividend_yield", "eps_growth"}

\* The call f(a, b) of one of the nine static methods.
CallRatio(f, a, b) ==
    CASE f = "pe_ratio"       -> pe_ratio(a, b)
      [] f = "pb_ratio"       -> pb_ratio(a, b)
      [] f = "peg_ratio"      -> peg_ratio(a, b)
      [] f = "roe"            -> roe(a, b)
      [] f = "roa"            -> roa(a, b)
      [] f = "debt_to_equity" -> debt_to_equity(a, b)
      [] f = "current_ratio"  -> current_ratio(a, b)
      [] f = "dividend_yield" -> dividend_yield(a, b)
      [] f = "eps_growth"     -> eps_growth(a, b)

(***************************************************************************)
(* FundamentalAnalysis.analyze_company                                     *)
(***************************************************************************)
\* A snapshot field is <<>> when the key is absent and <<v>> when present.
Get(financial_data, field, default) ==
    IF financial_data[field] = <<>> THEN Num(default)
    ELSE Num(financial_data[field][1])

LowPE    == "Low P/E ratio (potentially undervalued)"
HighPE   == "High P/E ratio (potentially overvalued)"
GoodROE  == "Good ROE (>15%)"
LowDE    == "Low debt-to-equity (financially stable)"
HighDE   == "High debt-to-equity (high leverage)"
GoodLiq  == "Good liquidity (CR > 1.5)"
LowLiq   == "Low liquidity (CR < 1)"

RatioKeys ==
    {"pe_ratio", "pb_ratio", "peg_ratio", "roe", "roa", "debt_to_equity",
     "current_ratio", "dividend_yield"}

\* The eight values the "Calculate ratios" block computes, before rounding.
\* peg is computed only under "if pe and earnings_growth".
ComputedRatios(financial_data) ==
    LET price    == Get(financial_data, "price", 0)
        eps      == Get(financial_data, "eps", 0)
        bvps     == Get(financial_data, "book_value_per_share", 0)
        ni       == Get(financial_data, "net_income", 0)
        ta       == Get(financial_data, "total_assets", 0)
        se       == Get(financial_data, "shareholders_equity", 0)
        td       == Get(financial_data, "total_debt", 0)
        ca       == Get(financial_data, "current_assets", 0)
        cl       == Get(financial_data, "current_liabilities", 0)
        ad       == Get(financial_data, "annual_dividend", 0)
        eg       == Get(financial_data, "earnings_growth_rate", 0)
        pe       == pe_ratio(price, eps)
    IN  [pe_ratio       |-> pe,
         pb_ratio       |-> pb_ratio(price, bvps),
         peg_ratio      |-> IF Truthy(pe) /\ Truthy(eg) THEN peg_ratio(pe, eg) ELSE None,
         roe            |-> roe(ni, se),
         roa            |-> roa(ni, ta),
         debt_to_equity |-> debt_to_equity(td, se),
         current_ratio  |-> current_ratio(ca, cl),
         dividend_yield |-> dividend_yield(ad, price)]

\* Mutant: the test is made on the rounded value.
StoreRatioRounded(v) == ~IsNone(v) /\ ~IsZero(Round2(v))

\* "if pe: result['ratios']['pe_ratio'] = round(pe, 2)", for each ratio.
StoreRatio(v) == Truthy(v)

RatiosOf(c) ==
    [key \in {x \in RatioKeys : StoreRatio(c[x])} |-> Round2(c[key])]

PESignal(pe) ==
    IF Truthy(pe) /\ Lt(pe, Num(15)) THEN <<LowPE>>
    ELSE IF Truthy(pe) /\ Gt(pe, Num(30)) THEN <<HighPE>>
    ELSE <<>>

\* Mutant: the threshold is not strict.
ROESignalGe(roe_val) ==
    IF Truthy(roe_val) /\ Le(Num(15), roe_val) THEN <<GoodROE>> ELSE <<>>

ROESignal(roe_val) ==
    IF Truthy(roe_val) /\ Gt(roe_val, Num(15)) THEN <<GoodROE>> ELSE <<>>

\* Mutant: the signal is not held back for a ratio that is 0 or None.
DESignalUngated(de) ==
    IF Lt(de, Fin(1, 2)) THEN <<LowDE>>
    ELSE IF Gt(de, Num(2)) THEN <<HighDE>>
    ELSE <<>>

DESignal(de) ==
    IF Truthy(de) /\ Lt(de, Fin(1, 2)) THEN <<LowDE>>
    ELSE IF Truthy(de) /\ Gt(de, Num(2)) THEN <<HighDE>>
    ELSE <<>>

CRSignal(cr) ==
    IF Truthy(cr) /\ Gt(cr, Fin(3, 2)) THEN <<GoodLiq>>
    ELSE IF Truthy(cr) /\ Lt(cr, Num(1)) THEN <<LowLiq>>
    ELSE <<>>

\* Mutant: the liquidity block runs before the debt block.
analyze_company_reordered(financial_data) ==
    LET c == ComputedRatios(financial_data)
    IN  [ratios  |-> RatiosOf(c),
         scores  |-> <<>>,
         signals |-> PESignal(c.pe_ratio) \o ROESignal(c.roe)
                       \o CRSignal(c.current_ratio) \o DESignal(c.debt_to_equity)]

analyze_company(financial_data) ==
    LET c == ComputedRatios(financial_data)
    IN  [ratios  |-> RatiosOf(c),
         scores  |-> <<>>,
         signals |-> PESignal(c.pe_ratio) \o ROESignal(c.roe)
                       \o DESignal(c.debt_to_equity) \o CRSignal(c.current_ratio)]

(***************************************************************************)
(* Inputs of the fundamental engine                                        *)
(***************************************************************************)
\* Arguments of the nine ratio functions, negative ones included.
RatioArgs == {-100, -10, 0, 1, 10, 100, 150, 1000}

\* Snapshots: each field absent or one of a few values around the thresholds.
Snapshots ==
    [price                : {<<>>, <<0>>, <<1>>, <<30>>, <<100>>},
     eps                  : {<<>>, <<0>>, <<1>>, <<2>>, <<1000>>},
     book_value_per_share : {<<0>>, <<4>>},
     net_income           : {<<0>>, <<150>>, <<151>>},
     total_assets         : {<<>>, <<2000>>},
     shareholders_equity  : {<<>>, <<0>>, <<1000>>},
     total_debt           : {<<0>>, <<400>>, <<500>>, <<2000>>, <<2500>>},
     current_assets       : {<<0>>, <<50>>, <<100>>, <<120>>, <<150>>, <<200>>},
     current_liabilities  : {<<>>, <<0>>, <<100>>},
     annual_dividend      : {<<0>>, <<3>>},
     earnings_growth_rate : {<<>>, <<10>>}]

\* A snapshot with none of the fields the engine reads.
NoFields == [field \in DOMAIN CHOOSE fd \in Snapshots : TRUE |-> <<>>]

NoCall == [op |-> "none"]

\* No fetcher has been constructed, and no cache file written.
NoFetcher == [class |-> "none"]
NoFiles == <<>>

(***************************************************************************)
(* The fundamental engine as a state machine: a caller invokes one of the  *)
(* static methods (pc "idle" -> "done"), then takes the result.            *)
(***************************************************************************)
InitFund ==
    /\ pc = "idle"
    /\ req = NoCall
    /\ ret = None
    /\ df = <<>>
    /\ fetcher = NoFetcher
    /\ cache = NoFiles
    /\ now = 1

Ratio ==
    /\ pc = "idle"
    /\ \E f \in RatioFunctions, a \in RatioArgs, b \in RatioArgs :
          /\ req' = [op |-> f, a |-> a, b |-> b]
          /\ ret' = CallRatio(f, Num(a), Num(b))
    /\ pc' = "done"
    /\ UNCHANGED df
    /\ UNCHANGED fetcher_vars

AnalyzeCompany ==
    /\ pc = "idle"
    /\ \E fd \in Snapshots \cup {NoFields} :
          /\ req' = [op |-> "analyze_company", financial_data |-> fd]
          /\ ret' = analyze_company(fd)
    /\ pc' = "done"
    /\ UNCHANGED df
    /\ UNCHANGED fetcher_vars

Return ==
    /\ pc = "done"
    /\ pc' = "idle"
    /\ req' = NoCall
    /\ ret' = None
    /\ UNCHANGED df
    /\ UNCHANGED fetcher_vars

NextFund == Ratio \/ AnalyzeCompany \/ Return

SpecFund == InitFund /\ [][NextFund]_vars

(***************************************************************************)
(* pandas Series operations used by TechnicalIndicators.  A Series is a    *)
(* sequence of doubles; position i of the code is element i + 1 here.      *)
(***************************************************************************)
\* A Series: its rows are computed once and kept as a sequence.
Series(rows) == rows \o <<>>

One == Num(1)
Zero == Num(0)

\* Mutant: diff(-1), each row minus the row after it.
diff_forward(s) ==
    Series([i \in 1..Len(s) |-> IF i = Len(s) THEN NaN ELSE Sub(s[i], s[i + 1])])

\* Series.diff() and Series.shift(): no value at the first position.
diff(s) == Series([i \in 1..Len(s) |-> IF i = 1 THEN NaN ELSE Sub(s[i], s[i - 1])])

shift(s) == Series([i \in 1..Len(s) |-> IF i = 1 THEN NaN ELSE s[i - 1]])

\* Element-wise arithmetic of two aligned Series, and of a Series and a scalar.
SAdd(s, t) == Series([i \in 1..Len(s) |-> Add(s[i], t[i])])
SSub(s, t) == Series([i \in 1..Len(s) |-> Sub(s[i], t[i])])
SMul(s, t) == Series([i \in 1..Len(s) |-> Mul(s[i], t[i])])
SDiv(s, t) == Series([i \in 1..Len(s) |-> Div(s[i], t[i])])
SNeg(s)    == Series([i \in 1..Len(s) |-> Neg(s[i])])
SAbs(s)    == Series([i \in 1..Len(s) |-> NAbs(s[i])])
Scale(c, s) == Series([i \in 1..Len(s) |-> Mul(c, s[i])])

\* Rolling windows see +-inf as a missing value (Rolling._prep_values).
Prep(x) == IF IsInf(x) THEN NaN ELSE x

\* rolling(window=p) has min_periods = p: a window yields a value only when
\* it is full and holds no missing value.
WindowOk(s, i, p) ==
    /\ i >= p
    /\ \A j \in (i - p + 1)..i : ~IsNaN(Prep(s[j]))

\* The running sum acc + s[lo] + ... + s[hi], added row by row; a sum that
\* has become NaN stays NaN.
RECURSIVE SumFrom(_, _, _, _)
SumFrom(s, lo, hi, acc) ==
    IF lo > hi \/ IsNaN(acc) THEN acc ELSE SumFrom(s, lo + 1, hi, Add(acc, s[lo]))

SumRange(s, lo, hi) == SumFrom(s, lo, hi, Zero)

rolling_sum(s, p) ==
    Series([i \in 1..Len(s) |->
        IF WindowOk(s, i, p) THEN SumRange(s, i - p + 1, i) ELSE NaN])

\* Mutant: the rows without a full window are dropped (a dropna()).
rolling_mean_dropna(s, p) ==
    IF Len(s) < p THEN <<>>
    ELSE Series([i \in 1..(Len(s) - p + 1) |-> Div(SumRange(s, i, i + p - 1), Num(p))])

\* Mutant: min_periods = 1, the mean of what the window holds so far.
rolling_mean_min1(s, p) ==
    Series([i \in 1..Len(s) |->
        LET lo == IF i >= p THEN i - p + 1 ELSE 1
        IN  IF \A j \in lo..i : ~IsNaN(Prep(s[j]))
            THEN Div(SumRange(s, lo, i), Num(i - lo + 1)) ELSE NaN])

rolling_mean(s, p) ==
    Series([i \in 1..Len(s) |->
        IF WindowOk(s, i, p) THEN Div(SumRange(s, i - p + 1, i), Num(p)) ELSE NaN])

rolling_min(s, p) ==
    Series([i \in 1..Len(s) |->
        IF WindowOk(s, i, p)
        THEN CHOOSE m \in {s[j] : j \in (i - p + 1)..i} :
                 \A j \in (i - p + 1)..i : ~Lt(s[j], m)
        ELSE NaN])

rolling_max(s, p) ==
    Series([i \in 1..Len(s) |->
        IF WindowOk(s, i, p)
        THEN CHOOSE m \in {s[j] : j \in (i - p + 1)..i} :
                 \A j \in (i - p + 1)..i : ~Gt(s[j], m)
        ELSE NaN])

\* rolling(window=p).std() squared: the sample variance (ddof = 1) of a full
\* window, no value for p = 1.
rolling_var(s, p) ==
    Series([i \in 1..Len(s) |->
        IF WindowOk(s, i, p) /\ p > 1
        THEN LET mean == Div(SumRange(s, i - p + 1, i), Num(p))
                 dev  == Series([j \in 1..Len(s) |-> Mul(Sub(s[j], mean), Sub(s[j], mean))])
             IN  Div(SumRange(dev, i - p + 1, i), Num(p - 1))
        ELSE NaN])

\* ewm(span=p, adjust=False).mean() of a Series without missing values: the
\* rows are produced in order, each from the row before it; acc holds the
\* rows produced so far.
RECURSIVE EwmFrom(_, _, _)
EwmFrom(s, p, acc) ==
    IF Len(acc) >= Len(s) THEN acc
    ELSE LET i == Len(acc) + 1
         IN  EwmFrom(s, p, Append(acc,
                 IF i = 1 THEN s[1]
                 ELSE Add(Mul(Fin(2, p + 1), s[i]),
                          Mul(Fin(p - 1, p + 1), acc[i - 1]))))

ewm_mean(s, p) == EwmFrom(s, p, <<>>)

\* s.where(cond, 0) with cond "s > t" or "s < t".
WhereGt(s, ref, t) == Series([i \in 1..Len(s) |-> IF Gt(ref[i], t[i]) THEN s[i] ELSE Zero])
WhereLt(s, ref, t) == Series([i \in 1..Len(s) |-> IF Lt(ref[i], t[i]) THEN s[i] ELSE Zero])

Zeros(s) == Series([i \in 1..Len(s) |-> Zero])

\* max(axis=1) of three columns, missing values skipped.
RowMax3(a, b, c) ==
    Series([i \in 1..Len(a) |->
        LET vals == {x \in {a[i], b[i], c[i]} : ~IsNaN(x)}
        IN  IF vals = {} THEN NaN
            ELSE CHOOSE m \in vals : \A x \in vals : ~Gt(x, m)])

\* np.sign
NSign(x) == IF IsNaN(x) THEN NaN ELSE Num(Sgn(x))

fillna0(s) == Series([i \in 1..Len(s) |-> IF IsNaN(s[i]) THEN Zero ELSE s[i]])

\* cumsum(): the rows are produced in order; acc holds the rows so far.
RECURSIVE CumFrom(_, _)
CumFrom(s, acc) ==
    IF Len(acc) >= Len(s) THEN acc
    ELSE LET i == Len(acc) + 1
         IN  CumFrom(s, Append(acc, IF i = 1 THEN s[1] ELSE Add(acc[i - 1], s[i])))

cumsum(s) == CumFrom(s, <<>>)

(***************************************************************************)
(* TechnicalIndicators                                                     *)
(***************************************************************************)
\* Mutant: the window ends one row before the current one (closed='left').
sma_exclusive(data, period) ==
    Series([i \in 1..Len(data) |->
        IF i > period /\ WindowOk(data, i - 1, period)
        THEN Div(SumRange(data, i - period, i - 1), Num(period)) ELSE NaN])

sma(data, period) == rolling_mean(data, period)

\* Mutant: the average is seeded with the simple mean of the first `period`
\* rows and holds no value before that.
ema_sma_seeded(data, period) ==
    LET seed == rolling_mean(data, period)
        tail == IF Len(data) < period THEN <<>>
                ELSE ewm_mean(<<seed[period]>> \o SubSeq(data, period + 1, Len(data)),
                              period)
    IN  Series([i \in 1..Len(data) |-> IF i < period THEN NaN ELSE tail[i - period + 1]])

ema(data, period) == ewm_mean(data, period)

wma(data, period) ==
    LET wsum == (period * (period + 1)) \div 2
    IN  Series([i \in 1..Len(data) |->
            IF WindowOk(data, i, period)
            THEN LET w == Series([j \in 1..Len(data) |->
                               Mul(Num(j - (i - period)), data[j])])
                 IN  Div(SumRange(w, i - period + 1, i), Num(wsum))
            ELSE NaN])

\* Mutant: a zero average loss is special-cased to 100.
RsiOfLossless(gain, loss) ==
    Series([i \in 1..Len(gain) |->
        IF IsZero(loss[i]) THEN Hundred
        ELSE Sub(Hundred, Div(Hundred, Add(One, Div(gain[i], loss[i]))))])

RsiOf(gain, loss) ==
    LET rs == SDiv(gain, loss)
    IN  Series([i \in 1..Len(rs) |-> Sub(Hundred, Div(Hundred, Add(One, rs[i])))])

\* Mutant: the losses keep their sign.
rsi_signed_loss(data, period) ==
    LET delta == diff(data)
        gain  == rolling_mean(WhereGt(delta, delta, Zeros(delta)), period)
        loss  == rolling_mean(WhereLt(delta, delta, Zeros(delta)), period)
    IN  RsiOf(gain, loss)

rsi(data, period) ==
    LET delta == diff(data)
        gain  == rolling_mean(WhereGt(delta, delta, Zeros(delta)), period)
        loss  == rolling_mean(SNeg(WhereLt(delta, delta, Zeros(delta))), period)
    IN  RsiOf(gain, loss)

\* Mutant: the signal line is a simple average of the MACD line.
macd_sma_signal(data, fast_period, slow_period, signal_period) ==
    LET macd_line   == SSub(ema(data, fast_period), ema(data, slow_period))
        signal_line == sma(macd_line, signal_period)
    IN  [macd_line   |-> macd_line,
         signal_line |-> signal_line,
         histogram   |-> SSub(macd_line, signal_line)]

macd(data, fast_period, slow_period, signal_period) ==
    LET fast_ema    == ema(data, fast_period)
        slow_ema    == ema(data, slow_period)
        macd_line   == SSub(fast_ema, slow_ema)
        signal_line == ema(macd_line, signal_period)
    IN  [macd_line   |-> macd_line,
         signal_line |-> signal_line,
         histogram   |-> SSub(macd_line, signal_line)]

\* A band value mid + sgn * sqrt(rad): the square root is kept symbolic.
Band(mid, sgn, rad) ==
    IF IsNaN(mid) \/ IsNaN(rad) THEN NaN
    ELSE [k |-> "fin", n |-> mid.n, d |-> mid.d, sgn |-> sgn, rad |-> rad]

\* Mutant: the population standard deviation (ddof = 0).
bollinger_bands_population(data, period, std_dev) ==
    LET middle_band == sma(data, period)
        var         == Series([i \in 1..Len(data) |->
                           IF WindowOk(data, i, period)
                           THEN LET mean == middle_band[i]
                                    dev  == Series([j \in 1..Len(data) |->
                                                Mul(Sub(data[j], mean), Sub(data[j], mean))])
                                IN  Div(SumRange(dev, i - period + 1, i), Num(period))
                           ELSE NaN])
        k2          == Mul(std_dev, std_dev)
    IN  [upper_band  |-> Series([i \in 1..Len(data) |->
                            Band(middle_band[i], Sgn(std_dev), Mul(k2, var[i]))]),
         middle_band |-> middle_band,
         lower_band  |-> Series([i \in 1..Len(data) |->
                            Band(middle_band[i], -Sgn(std_dev), Mul(k2, var[i]))])]

bollinger_bands(data, period, std_dev) ==
    LET middle_band == sma(data, period)
        var         == rolling_var(data, period)
        k2          == Mul(std_dev, std_dev)
    IN  [upper_band  |-> Series([i \in 1..Len(data) |->
                            Band(middle_band[i], Sgn(std_dev), Mul(k2, var[i]))]),
         middle_band |-> middle_band,
         lower_band  |-> Series([i \in 1..Len(data) |->
                            Band(middle_band[i], -Sgn(std_dev), Mul(k2, var[i]))])]

\* Mutant: an empty range is special-cased to no value.
StochKGuarded(close, lowest_low, highest_high) ==
    Series([i \in 1..Len(close) |->
        IF IsZero(Sub(highest_high[i], lowest_low[i])) THEN NaN
        ELSE Div(Mul(Hundred, Sub(close[i], lowest_low[i])),
                 Sub(highest_high[i], lowest_low[i]))])

StochK(close, lowest_low, highest_high) ==
    SDiv(Scale(Hundred, SSub(close, lowest_low)), SSub(highest_high, lowest_low))

stochastic(high, low, close, k_period, d_period) ==
    LET lowest_low   == rolling_min(low, k_period)
        highest_high == rolling_max(high, k_period)
        k            == StochK(close, lowest_low, highest_high)
    IN  [k |-> k, d |-> rolling_mean(k, d_period)]

atr(high, low, close, period) ==
    LET tr1 == SSub(high, low)
        tr2 == SAbs(SSub(high, shift(close)))
        tr3 == SAbs(SSub(low, shift(close)))
    IN  rolling_mean(RowMax3(tr1, tr2, tr3), period)

\* +DM and -DM of adx.
plus_dm(high, low) ==
    LET up_move   == diff(high)
        down_move == SNeg(diff(low))
    IN  Series([i \in 1..Len(high) |->
            IF Gt(up_move[i], down_move[i]) /\ Gt(up_move[i], Zero)
            THEN up_move[i] ELSE Zero])

minus_dm(high, low) ==
    LET up_move   == diff(high)
        down_move == SNeg(diff(low))
    IN  Series([i \in 1..Len(high) |->
            IF Gt(down_move[i], up_move[i]) /\ Gt(down_move[i], Zero)
            THEN down_move[i] ELSE Zero])

\* +DI and -DI of adx.
plus_di(high, low, close, period) ==
    Scale(Hundred, SDiv(rolling_mean(plus_dm(high, low), period),
                        atr(high, low, close, period)))

minus_di(high, low, close, period) ==
    Scale(Hundred, SDiv(rolling_mean(minus_dm(high, low), period),
                        atr(high, low, close, period)))

adx(high, low, close, period) ==
    LET pdi == plus_di(high, low, close, period)
        mdi == minus_di(high, low, close, period)
        dx  == SDiv(Scale(Hundred, SAbs(SSub(pdi, mdi))), SAdd(pdi, mdi))
    IN  rolling_mean(dx, period)

\* Mutant: each step adds the price change times the volume.
obv_delta(close, volume) ==
    cumsum(fillna0(SMul(diff(close), volume)))

obv(close, volume) ==
    LET d == diff(close)
    IN  cumsum(fillna0(Series([i \in 1..Len(close) |-> Mul(NSign(d[i]), volume[i])])))

MfiOf(positive_mf, negative_mf) ==
    Series([i \in 1..Len(positive_mf) |->
        Sub(Hundred, Div(Hundred, Add(One, Div(positive_mf[i], negative_mf[i]))))])

mfi(high, low, close, volume, period) ==
    LET typical_price == Series([i \in 1..Len(high) |->
                             Div(Add(Add(high[i], low[i]), close[i]), Num(3))])
        money_flow    == SMul(typical_price, volume)
        positive_flow == WhereGt(money_flow, typical_price, shift(typical_price))
        negative_flow == WhereLt(money_flow, typical_price, shift(typical_price))
    IN  MfiOf(rolling_sum(positive_flow, period), rolling_sum(negative_flow, period))

\* A column of a frame of bars.
Col(frame, name) == Series([i \in 1..Len(frame) |-> Num(frame[i][name])])

\* Mutant: the bands lie one standard deviation from the middle.
calculate_all_narrow_bands(frame) ==
    LET open_  == Col(frame, "open")
        high   == Col(frame, "high")
        low    == Col(frame, "low")
        close  == Col(frame, "close")
        volume == Col(frame, "volume")
        m      == macd(close, 12, 26, 9)
        bb     == bollinger_bands(close, 20, Num(1))
        st     == stochastic(high, low, close, 14, 3)
    IN  [open |-> open_, high |-> high, low |-> low, close |-> close,
         volume |-> volume,
         sma_7   |-> sma(close, 7),   ema_7   |-> ema(close, 7),
         sma_20  |-> sma(close, 20),  ema_20  |-> ema(close, 20),
         sma_50  |-> sma(close, 50),  ema_50  |-> ema(close, 50),
         sma_100 |-> sma(close, 100), ema_100 |-> ema(close, 100),
         sma_200 |-> sma(close, 200), ema_200 |-> ema(close, 200),
         ema_12 |-> ema(close, 12), ema_26 |-> ema(close, 26),
         rsi |-> rsi(close, 14),
         macd |-> m.macd_line, macd_signal |-> m.signal_line,
         macd_histogram |-> m.histogram,
         bb_upper |-> bb.upper_band, bb_middle |-> bb.middle_band,
         bb_lower |-> bb.lower_band,
         stoch_k |-> st.k, stoch_d |-> st.d,
         atr |-> atr(high, low, close, 14),
         adx |-> adx(high, low, close, 14),
         obv |-> obv(close, volume),
         mfi |-> mfi(high, low, close, volume, 14)]

calculate_all(frame) ==
    LET open_  == Col(frame, "open")
        high   == Col(frame, "high")
        low    == Col(frame, "low")
        close  == Col(frame, "close")
        volume == Col(frame, "volume")
        m      == macd(close, 12, 26, 9)
        bb     == bollinger_bands(close, 20, Num(2))
        st     == stochastic(high, low, close, 14, 3)
    IN  [open |-> open_, high |-> high, low |-> low, close |-> close,
         volume |-> volume,
         sma_7   |-> sma(close, 7),   ema_7   |-> ema(close, 7),
         sma_20  |-> sma(close, 20),  ema_20  |-> ema(close, 20),
         sma_50  |-> sma(close, 50),  ema_50  |-> ema(close, 50),
         sma_100 |-> sma(close, 100), ema_100 |-> ema(close, 100),
         sma_200 |-> sma(close, 200), ema_200 |-> ema(close, 200),
         ema_12 |-> ema(close, 12), ema_26 |-> ema(close, 26),
         rsi |-> rsi(close, 14),
         macd |-> m.macd_line, macd_signal |-> m.signal_line,
         macd_histogram |-> m.histogram,
         bb_upper |-> bb.upper_band, bb_middle |-> bb.middle_band,
         bb_lower |-> bb.lower_band,
         stoch_k |-> st.k, stoch_d |-> st.d,
         atr |-> atr(high, low, close, 14),
         adx |-> adx(high, low, close, 14),
         obv |-> obv(close, volume),
         mfi |-> mfi(high, low, close, volume, 14)]

\* Mutant: the columns are assigned to the caller's frame itself.
df_after_calculate_all_inplace(frame) ==
    LET result == calculate_all(frame)
    IN  Series([i \in 1..Len(frame) |->
            [name \in DOMAIN result |->
                IF name \in DOMAIN frame[i] THEN frame[i][name] ELSE result[name][i]]])

\* The caller's frame after calculate_all(frame): every column is assigned
\* to result, a copy of the frame, and the frame is left as it was.
df_after_calculate_all(frame) == frame

(***************************************************************************)
(* Inputs of the technical engine                                          *)
(***************************************************************************)
\* The longest frame a caller builds.
MaxLen == 3

\* The longest frame calculate_all is called on, counted from the seed row:
\* the signal line of MACD(12, 26, 9) has the denominator 5^(n-1) * 351^(n-1)
\* at the n-th row from the seed, which leaves TLC's 32-bit integers at the
\* fifth row.
MaxAllLen == 2

\* Bars over two price levels: every combination of high >= low and close,
\* a close outside [low, high] included; the volume follows the close.
Bars ==
    {[open |-> 1, high |-> hl[1], low |-> hl[2], close |-> c, volume |-> c] :
        hl \in {<<1, 1>>, <<2, 1>>, <<2, 2>>}, c \in {1, 2}}

\* A recorded history the caller may start from, long enough for the default
\* periods of calculate_all: the close stays at 1 (the averages of a flat
\* close stay integers), the high alternates between 2 and 1.
HistoryLens == {19, 26, 49, 99}

History(n) ==
    Series([i \in 1..n |->
        [open |-> 1, high |-> IF i % 2 = 1 THEN 2 ELSE 1, low |-> 1, close |-> 1,
         volume |-> 1]])

\* The length of the recorded history a frame starts with (0: none).
Base(frame) ==
    LET hs == {h \in HistoryLens : Len(frame) >= h /\ SubSeq(frame, 1, h) = History(h)}
    IN  IF hs = {} THEN 0 ELSE CHOOSE h \in hs : \A g \in hs : g <= h

\* The row the exponential averages of the bars that follow start from: the
\* last row of the recorded history, or the first row of the frame.
Seed(frame) == IF Base(frame) = 0 THEN 1 ELSE Base(frame)

\* Ticks: bars of a single price, (close, volume) over rising, falling and
\* unchanged closes, negative and zero ones included, and over positive,
\* zero and negative volumes.
Ticks ==
    {[open |-> cv[1], high |-> cv[1], low |-> cv[1], close |-> cv[1], volume |-> cv[2]] :
        cv \in {<<1, 2>>, <<1, -1>>, <<2, -1>>, <<3, 3>>, <<0, 0>>, <<-1, 1>>}}

\* The five closes 10, 12, 14, 16, 18 as a frame of ticks.
Example ==
    Series([i \in 1..5 |->
        [open |-> 8 + 2 * i, high |-> 8 + 2 * i, low |-> 8 + 2 * i,
         close |-> 8 + 2 * i, volume |-> 1]])

Periods == 1..3

\* The std_dev arguments of the bollinger_bands calls.
StdDevs == {-1, 0, 2}

\* (fast, slow, signal) of the macd calls and (k, d) of the stochastic calls.
MacdPeriods == {<<1, 2, 2>>, <<2, 3, 2>>}
StochPeriods == {<<1, 1>>, <<2, 1>>, <<2, 2>>, <<3, 2>>}

OneSeriesOps == {"sma", "ema", "wma", "rsi", "atr", "adx", "mfi"}

\* The call of a one-result indicator on the columns of a frame.
CallIndicator(op, frame, period) ==
    LET high   == Col(frame, "high")
        low    == Col(frame, "low")
        close  == Col(frame, "close")
        volume == Col(frame, "volume")
    IN  CASE op = "sma" -> sma(close, period)
          [] op = "ema" -> ema(close, period)
          [] op = "wma" -> wma(close, period)
          [] op = "rsi" -> rsi(close, period)
          [] op = "atr" -> atr(high, low, close, period)
          [] op = "adx" -> adx(high, low, close, period)
          [] op = "mfi" -> mfi(high, low, close, volume, period)

(***************************************************************************)
(* The technical engine as a state machine: the caller holds a frame df,   *)
(* grows it bar by bar, and calls the static methods on its columns.       *)
(***************************************************************************)
Init ==
    /\ pc = "idle"
    /\ req = NoCall
    /\ ret = None
    /\ df = <<>>
    /\ fetcher = NoFetcher
    /\ cache = NoFiles
    /\ now = 1

AddBar ==
    /\ pc = "idle"
    /\ Len(df) - Seed(df) < MaxLen - 1
    /\ \E bar \in Bars : df' = Append(df, bar)
    /\ UNCHANGED <<pc, req, ret>>
    /\ UNCHANGED fetcher_vars

AddTick ==
    /\ pc = "idle"
    /\ Len(df) < MaxLen
    /\ \E tick \in Ticks : df' = Append(df, tick)
    /\ UNCHANGED <<pc, req, ret>>
    /\ UNCHANGED fetcher_vars

LoadExample ==
    /\ pc = "idle"
    /\ df = <<>>
    /\ df' = Example
    /\ UNCHANGED <<pc, req, ret>>
    /\ UNCHANGED fetcher_vars

Indicator ==
    /\ pc = "idle"
    /\ \E op \in OneSeriesOps, period \in Periods :
          /\ req' = [op |-> op, period |-> period]
          /\ ret' = [value |-> CallIndicator(op, df, period)]
    /\ pc' = "done"
    /\ UNCHANGED df
    /\ UNCHANGED fetcher_vars

Macd ==
    /\ pc = "idle"
    /\ \E pp \in MacdPeriods :
          /\ req' = [op |-> "macd", fast_period |-> pp[1], slow_period |-> pp[2],
                     signal_period |-> pp[3]]
          /\ ret' = macd(Col(df, "close"), pp[1], pp[2], pp[3])
    /\ pc' = "done"
    /\ UNCHANGED df
    /\ UNCHANGED fetcher_vars

BollingerBands ==
    /\ pc = "idle"
    /\ \E period \in Periods, std_dev \in StdDevs :
          /\ req' = [op |-> "bollinger_bands", period |-> period, std_dev |-> std_dev]
          /\ ret' = bollinger_bands(Col(df, "close"), period, Num(std_dev))
    /\ pc' = "done"
    /\ UNCHANGED df
    /\ UNCHANGED fetcher_vars

Stochastic ==
    /\ pc = "idle"
    /\ \E pp \in StochPeriods :
          /\ req' = [op |-> "stochastic", period |-> pp[1], d_period |-> pp[2]]
          /\ ret' = stochastic(Col(df, "high"), Col(df, "low"), Col(df, "close"),
                               pp[1], pp[2])
    /\ pc' = "done"
    /\ UNCHANGED df
    /\ UNCHANGED fetcher_vars

Obv ==
    /\ pc = "idle"
    /\ req' = [op |-> "obv"]
    /\ ret' = [value |-> obv(Col(df, "close"), Col(df, "volume"))]
    /\ pc' = "done"
    /\ UNCHANGED df
    /\ UNCHANGED fetcher_vars

CalculateAll ==
    /\ pc = "idle"
    /\ Len(df) - Seed(df) < MaxAllLen
    /\ req' = [op |-> "calculate_all"]
    /\ ret' = calculate_all(df)
    /\ df' = df_after_calculate_all(df)
    /\ pc' = "done"
    /\ UNCHANGED fetcher_vars

Next ==
    \/ AddBar
    \/ Indicator
    \/ Macd
    \/ BollingerBands
    \/ Stochastic
    \/ Obv
    \/ CalculateAll
    \/ Return

Spec == Init /\ [][Next]_vars

(***************************************************************************)
(* The indicators of one price series: the caller's frame is built of      *)
(* ticks, or is the five-close example.                                    *)
(***************************************************************************)
NextSeries ==
    \/ AddTick
    \/ LoadExample
    \/ Indicator
    \/ Macd
    \/ BollingerBands
    \/ Obv
    \/ Return

SpecSeries == Init /\ [][NextSeries]_vars

(***************************************************************************)
(* calculate_all on a frame that starts with a recorded history.           *)
(***************************************************************************)
InitAll ==
    /\ pc = "idle"
    /\ req = NoCall
    /\ ret = None
    /\ df \in {History(h) : h \in HistoryLens}
    /\ fetcher = NoFetcher
    /\ cache = NoFiles
    /\ now = 1

NextAll ==
    \/ AddBar
    \/ CalculateAll
    \/ Return

SpecAll == InitAll /\ [][NextAll]_vars

(***************************************************************************)
(* Data fetchers: BaseFetcher, TwelveDataFetcher, SectorsFetcher.          *)
(*                                                                         *)
(* JSON values are tagged: an object holds its members as a record, an     *)
(* array its items as a sequence.  A DataFrame is its set of columns and   *)
(* its rows, each row a record; the price columns are represented by       *)
(* `close` alone.  Time is counted in whole seconds.                       *)
(***************************************************************************)
Object(members) == [type |-> "object", members |-> members]
Array(items) == [type |-> "array", items |-> items]
PyNone == [type |-> "none"]

\* A cache file json.load cannot read (truncated or corrupted).
Unreadable == [type |-> "unreadable"]

\* len(x) of a JSON value, and its truthiness (`if cached_data:`, `not data`).
JsonLen(x) ==
    CASE x.type = "array"  -> Len(x.items)
      [] x.type = "object" -> Cardinality(DOMAIN x.members)
      [] OTHER             -> 0

JsonTruthy_not_none(x) == x.type # "none"

JsonTruthy(x) == JsonLen(x) > 0

\* data.get(key, default) of a JSON object.
JsonGet(x, key, default) ==
    IF key \in DOMAIN x.members THEN x.members[key] ELSE default

\* pd.DataFrame(records) of a list of records, and pd.DataFrame().
DataFrame(rows) ==
    [type |-> "frame",
     columns |-> UNION {DOMAIN rows[i] : i \in 1..Len(rows)},
     rows |-> rows]

EmptyFrame == DataFrame(<<>>)

\* What a call hands back: a value, or an exception that leaves the method.
Returns(value) == [status |-> "returned", value |-> value]
Raises(exception) == [status |-> "raised", exception |-> exception]

\* df['timestamp'] = pd.to_datetime(df[column]) when the column exists.
WithTimestamp(frame, column) ==
    IF column \in frame.columns
    THEN [type |-> "frame",
          columns |-> frame.columns \cup {"timestamp"},
          rows |-> Series([i \in 1..Len(frame.rows) |->
                      [name \in DOMAIN frame.rows[i] \cup {"timestamp"} |->
                          IF name = "timestamp" THEN frame.rows[i][column]
                          ELSE frame.rows[i][name]]])]
    ELSE frame

\* rows sorted by timestamp (sort_values): row by row into its place, rows of
\* equal timestamp kept in their order.
RECURSIVE SortByTimestamp(_)
SortByTimestamp(rows) ==
    IF Len(rows) <= 1 THEN rows
    ELSE LET head == SortByTimestamp(SubSeq(rows, 1, Len(rows) - 1))
             last == rows[Len(rows)]
             k    == Cardinality({i \in 1..Len(head) :
                                     head[i].timestamp <= last.timestamp})
         IN  SubSeq(head, 1, k) \o <<last>> \o SubSeq(head, k + 1, Len(head))

normalize_dataframe_unsorted(frame) == frame

\* BaseFetcher._normalize_dataframe: the columns of the model are lower-case
\* already; a non-empty frame with a timestamp column is sorted by it.
normalize_dataframe(frame) ==
    IF Len(frame.rows) = 0 THEN frame
    ELSE IF "timestamp" \in frame.columns
         THEN [frame EXCEPT !.rows = SortByTimestamp(frame.rows)]
         ELSE frame

\* BaseFetcher._get_cache_key: the class name and the parameters.
get_cache_key(self, params) == [class |-> self.class, params |-> params]

\* BaseFetcher._read_cache: the value read, and the files left (an expired
\* file is deleted).
read_cache(files, cache_key, max_age_seconds, time) ==
    IF cache_key \notin DOMAIN files
    THEN [value |-> PyNone, files |-> files]
    ELSE IF time - files[cache_key].mtime > max_age_seconds
         THEN [value |-> PyNone,
               files |-> [k \in DOMAIN files \ {cache_key} |-> files[k]]]
         ELSE IF files[cache_key].content = Unreadable
              THEN [value |-> PyNone, files |-> files]
              ELSE [value |-> files[cache_key].content, files |-> files]

\* json.dump writes a value that holds a pandas Timestamp only up to the
\* Timestamp and raises there: the rows of a frame with a timestamp column.
Serializable(data) ==
    data.type = "array" =>
        \A i \in 1..Len(data.items) : "timestamp" \notin DOMAIN data.items[i]

\* BaseFetcher._write_cache: the file is opened for writing and the value
\* dumped into it; an exception of the dump is swallowed and leaves the file
\* with what was written before it.
write_cache(files, cache_key, data, time) ==
    [k \in DOMAIN files \cup {cache_key} |->
        IF k = cache_key
        THEN [mtime |-> time,
              content |-> IF Serializable(data) THEN data ELSE Unreadable]
        ELSE files[k]]

rate_limit_no_wait(self, time) == time

\* BaseFetcher._rate_limit: the time at which the call returns, after the
\* sleep if there is one; it becomes last_request_time.
rate_limit(self, time) ==
    IF time - self.last_request_time < self.rate_limit_delay
    THEN self.last_request_time + self.rate_limit_delay
    ELSE time

\* What the upstream API does with a request: the request fails with an
\* exception (of requests.exceptions.RequestException or not), or a JSON
\* body arrives with status 200.
Fault(exception, request_exception) ==
    [kind |-> "fault", exception |-> exception, request_exception |-> request_exception]

Body(json) == [kind |-> "body", json |-> json]

\* No request is made.
NoRequest == [kind |-> "none"]

\* A connection error or timeout, an HTTP error status (raise_for_status),
\* and a body that is no JSON: response.json() raises a JSONDecodeError,
\* which is a RequestException from requests 2.27 on and a plain ValueError
\* before.
Faults ==
    {Fault("ConnectionError", TRUE), Fault("HTTPError", TRUE),
     Fault("JSONDecodeError", TRUE), Fault("JSONDecodeError", FALSE)}

\* An error reported in a body of status 200, and an object with none of
\* the expected members.
ErrorBody == Object([code |-> 401, message |-> "invalid apikey", status |-> "error"])
PlainBody == Object([status |-> "ok"])

\* Rows as the two providers send them, and rows without a date.
TwelveRow(t) == [datetime |-> t, close |-> 1]
SectorsRow(t) == [date |-> t, close |-> 1]
UndatedRow == [close |-> 1]

\* /time_series of Twelve Data: the rows in an order that is neither that of
\* time nor its reverse.
TimeSeriesResponses ==
    Faults
    \cup {Body(Object([values |-> rows, status |-> "ok"])) :
            rows \in {<<>>, <<TwelveRow(2), TwelveRow(3), TwelveRow(1)>>, <<UndatedRow>>}}
    \cup {Body(ErrorBody), Body(PlainBody)}

\* /daily/{symbol} of Sectors.app: an array of rows.
DailyResponses ==
    Faults
    \cup {Body(Array(rows)) :
            rows \in {<<>>, <<SectorsRow(2), SectorsRow(3), SectorsRow(1)>>, <<UndatedRow>>}}
    \cup {Body(ErrorBody), Body(Object(<<>>))}

\* /profile, /company/{symbol}, /financials/{symbol}.
Profile == Object([name |-> "Bank Central Asia", sector |-> "Financials"])

ProfileResponses ==
    Faults \cup {Body(Profile), Body(ErrorBody), Body(Object(<<>>))}

Placeholder == "your_twelvedata_api_key_here"

Symbols == {"BBCA"}

\* TwelveDataFetcher._generate_demo_data: 365 daily rows that end today, in
\* order of time.
DemoLen == 365

generate_demo_data(symbol) ==
    DataFrame(Series([i \in 1..DemoLen |-> [timestamp |-> i, close |-> 1]]))

\* The outcome of a method: what it hands back, the cache files, the time
\* and the fetcher it leaves.
Outcome(result, files, time, self) ==
    [ret |-> result, files |-> files, time |-> time, self |-> self]

\* The key of a call with the defaults of the class: interval '1day' in
\* TwelveDataFetcher and '1d' in SectorsFetcher, no start and no end date.
StockKey(self, symbol) ==
    get_cache_key(self, [symbol   |-> symbol,
                         interval |-> IF self.class = "TwelveDataFetcher"
                                      THEN "1day" ELSE "1d",
                         start    |-> PyNone,
                         end      |-> PyNone])

\* The cached value is used: `if cached_data:`.
Hit(files, cache_key, max_age_seconds, time) ==
    JsonTruthy(read_cache(files, cache_key, max_age_seconds, time).value)

HasApiKey(self) == self.api_key \notin {"", Placeholder}

TwelveDataFetcher_get_stock_data(self, files, time, symbol, response) ==
    LET cache_key == StockKey(self, symbol)
        cached    == read_cache(files, cache_key, 3600, time)
        t         == rate_limit(self, time)
        waited    == [self EXCEPT !.last_request_time = t]
        demo      == Outcome(Returns(generate_demo_data(symbol)), cached.files, t, waited)
    IN  IF JsonTruthy(cached.value)
        THEN Outcome(Returns(DataFrame(cached.value.items)), cached.files, time, self)
        ELSE IF ~HasApiKey(self) THEN demo
        ELSE IF response.kind = "fault" THEN demo
        ELSE LET data == response.json
             IN  IF data.type # "object" THEN demo
                 ELSE IF "code" \in DOMAIN data.members /\ data.members.code # 200
                 THEN demo
                 ELSE IF "values" \notin DOMAIN data.members THEN demo
                 ELSE LET frame == normalize_dataframe(
                                       WithTimestamp(DataFrame(data.members.values),
                                                     "datetime"))
                      IN  Outcome(Returns(frame),
                                  write_cache(cached.files, cache_key,
                                              Array(frame.rows), t),
                                  t, waited)

SectorsFetcher_get_stock_data(self, files, time, symbol, response) ==
    LET cache_key == StockKey(self, symbol)
        cached    == read_cache(files, cache_key, 3600, time)
        t         == rate_limit(self, time)
        waited    == [self EXCEPT !.last_request_time = t]
    IN  IF JsonTruthy(cached.value)
        THEN Outcome(Returns(DataFrame(cached.value.items)), cached.files, time, self)
        ELSE IF response.kind = "fault"
        THEN IF response.request_exception
             THEN Outcome(Returns(EmptyFrame), cached.files, t, waited)
             ELSE Outcome(Raises(response.exception), cached.files, t, waited)
        ELSE LET data == response.json
             IN  IF ~JsonTruthy(data)
                 THEN Outcome(Returns(EmptyFrame), cached.files, t, waited)
                 ELSE IF data.type = "object"
                 \* pd.DataFrame of a dict of scalars: "If using all scalar
                 \* values, you must pass an index".
                 THEN Outcome(Raises("ValueError"), cached.files, t, waited)
                 ELSE LET frame == normalize_dataframe(
                                       WithTimestamp(DataFrame(data.items), "date"))
                      IN  Outcome(Returns(frame),
                                  write_cache(cached.files, cache_key,
                                              Array(frame.rows), t),
                                  t, waited)

\* The three methods that hand back a mapping read the cache for a day,
\* wait for the rate limit and ask the API; what differs is the endpoint, the
\* exceptions caught and what is made of the body.
InfoKey(self, symbol) ==
    IF self.class = "TwelveDataFetcher"
    THEN get_cache_key(self, [symbol |-> symbol, profile |-> TRUE])
    ELSE get_cache_key(self, [symbol |-> symbol, info |-> TRUE])

FinancialsKey(self, symbol) == get_cache_key(self, [symbol |-> symbol, financials |-> TRUE])

TwelveDataFetcher_get_company_info(self, files, time, symbol, response) ==
    LET cache_key == InfoKey(self, symbol)
        cached    == read_cache(files, cache_key, 86400, time)
        t         == rate_limit(self, time)
        waited    == [self EXCEPT !.last_request_time = t]
    IN  IF JsonTruthy(cached.value)
        THEN Outcome(Returns(cached.value), cached.files, time, self)
        ELSE IF response.kind = "fault"
        THEN Outcome(Returns(Object(<<>>)), cached.files, t, waited)
        ELSE Outcome(Returns(response.json),
                     write_cache(cached.files, cache_key, response.json, t),
                     t, waited)

TwelveDataFetcher_get_financials(self, files, time, symbol, response) ==
    LET cache_key == FinancialsKey(self, symbol)
        cached    == read_cache(files, cache_key, 86400, time)
        t         == rate_limit(self, time)
        waited    == [self EXCEPT !.last_request_time = t]
    IN  IF JsonTruthy(cached.value)
        THEN Outcome(Returns(cached.value), cached.files, time, self)
        ELSE IF response.kind = "fault"
        THEN Outcome(Returns(Object(<<>>)), cached.files, t, waited)
        \* data.get of a list raises AttributeError, which is caught.
        ELSE IF response.json.type # "object"
        THEN Outcome(Returns(Object(<<>>)), cached.files, t, waited)
        ELSE LET data == response.json
                 financials ==
                     Object([symbol      |-> symbol,
                             name        |-> JsonGet(data, "name", ""),
                             sector      |-> JsonGet(data, "sector", ""),
                             industry    |-> JsonGet(data, "industry", ""),
                             employees   |-> JsonGet(data, "employees", 0),
                             description |-> JsonGet(data, "description", ""),
                             note        |-> "Full financial data requires premium API subscription"])
             IN  Outcome(Returns(financials),
                         write_cache(cached.files, cache_key, financials, t),
                         t, waited)

SectorsFetcher_get_company_info(self, files, time, symbol, response) ==
    LET cache_key == InfoKey(self, symbol)
        cached    == read_cache(files, cache_key, 86400, time)
        t         == rate_limit(self, time)
        waited    == [self EXCEPT !.last_request_time = t]
    IN  IF JsonTruthy(cached.value)
        THEN Outcome(Returns(cached.value), cached.files, time, self)
        ELSE IF response.kind = "fault"
        THEN IF response.request_exception
             THEN Outcome(Returns(Object(<<>>)), cached.files, t, waited)
             ELSE Outcome(Raises(response.exception), cached.files, t, waited)
        ELSE Outcome(Returns(response.json),
                     write_cache(cached.files, cache_key, response.json, t),
                     t, waited)

SectorsFetcher_get_financials(self, files, time, symbol, response) ==
    LET cache_key == FinancialsKey(self, symbol)
        cached    == read_cache(files, cache_key, 86400, time)
        t         == rate_limit(self, time)
        waited    == [self EXCEPT !.last_request_time = t]
    IN  IF JsonTruthy(cached.value)
        THEN Outcome(Returns(cached.value), cached.files, time, self)
        ELSE IF response.kind = "fault"
        THEN IF response.request_exception
             THEN Outcome(Returns(Object(<<>>)), cached.files, t, waited)
             ELSE Outcome(Raises(response.exception), cached.files, t, waited)
        ELSE Outcome(Returns(response.json),
                     write_cache(cached.files, cache_key, response.json, t),
                     t, waited)

\* The method of the fetcher's class.
get_stock_data(self, files, time, symbol, response) ==
    IF self.class = "TwelveDataFetcher"
    THEN TwelveDataFetcher_get_stock_data(self, files, time, symbol, response)
    ELSE SectorsFetcher_get_stock_data(self, files, time, symbol, response)

get_company_info(self, files, time, symbol, response) ==
    IF self.class = "TwelveDataFetcher"
    THEN TwelveDataFetcher_get_company_info(self, files, time, symbol, response)
    ELSE SectorsFetcher_get_company_info(self, files, time, symbol, response)

get_financials(self, files, time, symbol, response) ==
    IF self.class = "TwelveDataFetcher"
    THEN TwelveDataFetcher_get_financials(self, files, time, symbol, response)
    ELSE SectorsFetcher_get_financials(self, files, time, symbol, response)

\* BaseFetcher.__init__ under the two concrete classes. Only
\* TwelveDataFetcher looks at the key: the placeholder of the configuration
\* template counts as no key.
Fetcher(class, api_key) ==
    [class |-> class, api_key |-> api_key,
     rate_limit_delay |-> 1, last_request_time |-> 0]

Fetchers ==
    {Fetcher("TwelveDataFetcher", "key"), Fetcher("TwelveDataFetcher", Placeholder),
     Fetcher("SectorsFetcher", "key")}

\* What the upstream can answer to a call: nothing when the call makes no
\* request (a cache hit, or no API key in TwelveDataFetcher.get_stock_data).
StockResponses(self, files, time, symbol) ==
    IF Hit(files, StockKey(self, symbol), 3600, time) THEN {NoRequest}
    ELSE IF self.class = "TwelveDataFetcher"
         THEN IF HasApiKey(self) THEN TimeSeriesResponses ELSE {NoRequest}
         ELSE DailyResponses

InfoResponses(self, files, time, symbol) ==
    IF Hit(files, InfoKey(self, symbol), 86400, time) THEN {NoRequest}
    ELSE ProfileResponses

FinancialsResponses(self, files, time, symbol) ==
    IF Hit(files, FinancialsKey(self, symbol), 86400, time) THEN {NoRequest}
    ELSE ProfileResponses

\* The clock readings of a run: a second apart, and an hour and a day (the
\* two cache lifetimes) after them. A call whose rate-limit sleep would end
\* at another reading waits for the clock to move first.
Times == {1, 2, 3601, 3602, 86401, 86402}

InitFetch ==
    /\ pc = "idle"
    /\ req = NoCall
    /\ ret = None
    /\ df = <<>>
    /\ fetcher \in Fetchers
    /\ cache = NoFiles
    /\ now = 1

GetStockData ==
    /\ pc = "idle"
    /\ fetcher # NoFetcher
    /\ \E symbol \in Symbols :
         \E response \in StockResponses(fetcher, cache, now, symbol) :
           LET out == get_stock_data(fetcher, cache, now, symbol, response)
           IN  /\ out.time \in Times
               /\ req' = [op |-> "get_stock_data", symbol |-> symbol,
                          response |-> response]
               /\ ret' = out.ret
               /\ cache' = out.files
               /\ now' = out.time
               /\ fetcher' = out.self
    /\ pc' = "done"
    /\ UNCHANGED df

GetCompanyInfo ==
    /\ pc = "idle"
    /\ fetcher # NoFetcher
    /\ \E symbol \in Symbols :
         \E response \in InfoResponses(fetcher, cache, now, symbol) :
           LET out == get_company_info(fetcher, cache, now, symbol, response)
           IN  /\ out.time \in Times
               /\ req' = [op |-> "get_company_info", symbol |-> symbol,
                          response |-> response]
               /\ ret' = out.ret
               /\ cache' = out.files
               /\ now' = out.time
               /\ fetcher' = out.self
    /\ pc' = "done"
    /\ UNCHANGED df

GetFinancials ==
    /\ pc = "idle"
    /\ fetcher # NoFetcher
    /\ \E symbol \in Symbols :
         \E response \in FinancialsResponses(fetcher, cache, now, symbol) :
           LET out == get_financials(fetcher, cache, now, symbol, response)
           IN  /\ out.time \in Times
               /\ req' = [op |-> "get_financials", symbol |-> symbol,
                          response |-> response]
               /\ ret' = out.ret
               /\ cache' = out.files
               /\ now' = out.time
               /\ fetcher' = out.self
    /\ pc' = "done"
    /\ UNCHANGED df

\* Time passes between two calls.
Tick ==
    /\ pc = "idle"
    /\ \E time \in Times : time > now /\ now' = time
    /\ UNCHANGED <<pc, req, ret, df, fetcher, cache>>

NextFetch == GetStockData \/ GetCompanyInfo \/ GetFinancials \/ Tick \/ Return

SpecFetch == InitFetch /\ [][NextFetch]_vars

\* The cache on its own: values written and read under the keys of the
\* fetcher, at the two lifetimes the fetchers ask for. The values are those
\* the fetchers write: the records of a frame with and without its
\* timestamp column (df.to_dict('records')), an empty list and a mapping.
CacheKeys(self) == {StockKey(self, "BBCA"), InfoKey(self, "BBCA")}

CacheValues ==
    {Array(<<[datetime |-> 1, close |-> 1, timestamp |-> 1]>>),
     Array(<<UndatedRow>>), Array(<<>>), Profile}

MaxAges == {3600, 86400}

WriteCache ==
    /\ pc = "idle"
    /\ fetcher # NoFetcher
    /\ \E cache_key \in CacheKeys(fetcher), data \in CacheValues :
         /\ req' = [op |-> "write_cache", cache_key |-> cache_key, data |-> data]
         /\ cache' = write_cache(cache, cache_key, data, now)
    /\ ret' = Returns(PyNone)
    /\ pc' = "done"
    /\ UNCHANGED <<df, fetcher, now>>

ReadCache ==
    /\ pc = "idle"
    /\ fetcher # NoFetcher
    /\ \E cache_key \in CacheKeys(fetcher), max_age_seconds \in MaxAges :
         LET cached == read_cache(cache, cache_key, max_age_seconds, now)
         IN  /\ req' = [op |-> "read_cache", cache_key |-> cache_key,
                        max_age_seconds |-> max_age_seconds]
             /\ ret' = Returns(cached.value)
             /\ cache' = cached.files
    /\ pc' = "done"
    /\ UNCHANGED <<df, fetcher, now>>

NextCache == WriteCache \/ ReadCache \/ Tick \/ Return

SpecCache == InitFetch /\ [][NextCache]_vars

(***************************************************************************)
(* The HTTP layer (api/server.py): four endpoints over the primary         *)
(* fetcher and the two engines                                             *)
(***************************************************************************)
\* raise HTTPException(status_code=...), and a returned body (status 200).
HTTPException(status_code) == [status_code |-> status_code, body |-> PyNone]
Ok(body) == [status_code |-> 200, body |-> body]

\* symbol.upper().
Upper(symbol) == IF symbol = "bbca" THEN "BBCA" ELSE symbol

\* Timestamp.isoformat(): a string made of the timestamp.
isoformat(timestamp) == <<"iso", timestamp>>

\* The 'timestamp' of every record becomes its isoformat string.
WithIsoTimestamps(rows) ==
    Series([i \in 1..Len(rows) |->
        IF "timestamp" \in DOMAIN rows[i]
        THEN [rows[i] EXCEPT !.timestamp = isoformat(rows[i].timestamp)]
        ELSE rows[i]])

\* GET /api/stock/{symbol}
api_get_stock_data(self, files, time, symbol, response) ==
    IF self = NoFetcher
    THEN Outcome(HTTPException(503), files, time, self)
    ELSE LET out == get_stock_data(self, files, time, Upper(symbol), response)
         IN  IF out.ret.status = "raised"
             THEN Outcome(HTTPException(500), out.files, out.time, out.self)
             ELSE IF Len(out.ret.value.rows) = 0
             THEN Outcome(HTTPException(404), out.files, out.time, out.self)
             ELSE Outcome(Ok([symbol   |-> Upper(symbol),
                              interval |-> "1d",
                              data     |-> WithIsoTimestamps(out.ret.value.rows)]),
                          out.files, out.time, out.self)

\* Mutant: the 404 raised inside the try block is caught by the handler of
\* Exception.
api_get_company_info_no_reraise(self, files, time, symbol, response) ==
    IF self = NoFetcher
    THEN Outcome(HTTPException(503), files, time, self)
    ELSE LET out == get_company_info(self, files, time, Upper(symbol), response)
         IN  IF out.ret.status = "raised" \/ ~JsonTruthy(out.ret.value)
             THEN Outcome(HTTPException(500), out.files, out.time, out.self)
             ELSE Outcome(Ok(out.ret.value), out.files, out.time, out.self)

\* GET /api/stock/{symbol}/info
api_get_company_info(self, files, time, symbol, response) ==
    IF self = NoFetcher
    THEN Outcome(HTTPException(503), files, time, self)
    ELSE LET out == get_company_info(self, files, time, Upper(symbol), response)
         IN  IF out.ret.status = "raised"
             THEN Outcome(HTTPException(500), out.files, out.time, out.self)
             ELSE IF ~JsonTruthy(out.ret.value)
             THEN Outcome(HTTPException(404), out.files, out.time, out.self)
             ELSE Outcome(Ok(out.ret.value), out.files, out.time, out.self)

\* df.replace([inf, -inf], None) on a column: the infinities become None
\* (and the column one of objects).
replace_inf(column) ==
    Series([i \in 1..Len(column) |-> IF IsInf(column[i]) THEN None ELSE column[i]])

\* df.where(pd.notnull(df), None) on a column: in a column of objects NaN
\* becomes None; in a column of floats None is stored as NaN again, and the
\* column stays as it was.
where_notnull(column) ==
    IF \E i \in 1..Len(column) : IsNone(column[i])
    THEN Series([i \in 1..Len(column) |->
                    IF IsNaN(column[i]) THEN None ELSE column[i]])
    ELSE column

clean_value_kept(value) == value

\* "Clean any remaining NaN values": a float that is NaN becomes None.
clean_value(value) == IF IsNaN(value) THEN None ELSE value

\* safe_float of get_technical_analysis.
safe_float(val) ==
    IF IsNone(val) \/ IsNaN(val) THEN None
    ELSE IF IsInf(val) THEN None
    ELSE val

\* The columns calculate_all reads.
PriceColumns == {"high", "low", "close", "volume"}

\* The frame after replace and where, and its last row.
CleanedFrame(result) ==
    [name \in DOMAIN result |-> where_notnull(replace_inf(result[name]))]

\* The body of get_technical_analysis for the cleaned frame of n rows.
BodyOf(symbol, n, cleaned) ==
    [symbol  |-> Upper(symbol),
     summary |-> [price       |-> safe_float(cleaned.close[n]),
                  rsi         |-> safe_float(cleaned.rsi[n]),
                  macd        |-> safe_float(cleaned.macd[n]),
                  macd_signal |-> safe_float(cleaned.macd_signal[n]),
                  sma_20      |-> safe_float(cleaned.sma_20[n]),
                  sma_50      |-> safe_float(cleaned.sma_50[n])],
     data    |-> Series([i \in 1..n |->
                     [name \in DOMAIN cleaned |-> clean_value(cleaned[name][i])]])]

\* The body of get_technical_analysis for a frame with the price columns:
\* calculate_all runs once, and the body is made of its result.
TechnicalBody(symbol, rows) ==
    CHOOSE body \in {BodyOf(symbol, Len(rows), CleanedFrame(result)) :
                        result \in {calculate_all(rows)}} : TRUE

\* GET /api/analysis/technical/{symbol}. A frame without one of the price
\* columns makes calculate_all raise KeyError.
api_get_technical_analysis(self, files, time, symbol, response) ==
    IF self = NoFetcher
    THEN Outcome(HTTPException(503), files, time, self)
    ELSE LET out == get_stock_data(self, files, time, Upper(symbol), response)
         IN  IF out.ret.status = "raised"
             THEN Outcome(HTTPException(500), out.files, out.time, out.self)
             ELSE IF Len(out.ret.value.rows) = 0
             THEN Outcome(HTTPException(404), out.files, out.time, out.self)
             ELSE IF ~(PriceColumns \subseteq out.ret.value.columns)
             THEN Outcome(HTTPException(500), out.files, out.time, out.self)
             ELSE Outcome(Ok(TechnicalBody(symbol, out.ret.value.rows)),
                          out.files, out.time, out.self)

\* The snapshot analyze_company reads out of a mapping: the fields it knows.
SnapshotOf(financials) ==
    [field \in DOMAIN NoFields |->
        IF field \in DOMAIN financials.members
        THEN <<financials.members[field]>> ELSE <<>>]

\* GET /api/analysis/fundamental/{symbol}. financial_data.get of a list
\* raises AttributeError.
api_get_fundamental_analysis(self, files, time, symbol, response) ==
    IF self = NoFetcher
    THEN Outcome(HTTPException(503), files, time, self)
    ELSE LET out == get_financials(self, files, time, Upper(symbol), response)
         IN  IF out.ret.status = "raised"
             THEN Outcome(HTTPException(500), out.files, out.time, out.self)
             ELSE IF ~JsonTruthy(out.ret.value)
             THEN Outcome(HTTPException(404), out.files, out.time, out.self)
             ELSE IF out.ret.value.type # "object"
             THEN Outcome(HTTPException(500), out.files, out.time, out.self)
             ELSE Outcome(Ok([symbol   |-> Upper(symbol),
                              analysis |-> analyze_company(SnapshotOf(out.ret.value)),
                              raw_data |-> out.ret.value,
                              note     |-> "Full fundamental data requires premium API subscription"]),
                          out.files, out.time, out.self)

\* primary_fetcher: None without TWELVEDATA_API_KEY, else a TwelveDataFetcher
\* (the placeholder of the template is a key for the server).
ServerFetchers ==
    {NoFetcher, Fetcher("TwelveDataFetcher", "key"),
     Fetcher("TwelveDataFetcher", Placeholder)}

\* Quotes of /time_series with the price columns, newest first: QuoteLen
\* days at one price, the close of the last day apart, so that the window
\* of the stochastic oscillator has no range.
QuoteLen == 15

Quote(t, close) ==
    [datetime |-> t, open |-> 1, high |-> 1, low |-> 1, close |-> close, volume |-> 1]

Quotes(last_close) ==
    Series([i \in 1..QuoteLen |->
        Quote(QuoteLen + 1 - i, IF i = 1 THEN last_close ELSE 1)])

QuoteResponses ==
    {Fault("ConnectionError", TRUE), Body(ErrorBody)}
    \cup {Body(Object([values |-> rows, status |-> "ok"])) :
            rows \in {<<>>, <<UndatedRow>>, Quotes(0), Quotes(2)}}

\* What the upstream can answer to a request of the server.
SeriesResponses(self, files, time, symbol) ==
    IF self = NoFetcher THEN {NoRequest}
    ELSE IF Hit(files, StockKey(self, symbol), 3600, time) \/ ~HasApiKey(self)
    THEN {NoRequest}
    ELSE QuoteResponses

MappingResponses(self, files, time, cache_key) ==
    IF self = NoFetcher THEN {NoRequest}
    ELSE IF Hit(files, cache_key, 86400, time) THEN {NoRequest}
    ELSE ProfileResponses

RequestSymbols == {"bbca"}

InitServer ==
    /\ pc = "idle"
    /\ req = NoCall
    /\ ret = None
    /\ df = <<>>
    /\ fetcher \in ServerFetchers
    /\ cache = NoFiles
    /\ now = 1

\* A request is served: the handler runs to its response. The clock of the
\* server moves with the waits of the rate limit only.
Serve(endpoint, out, symbol, response) ==
    /\ out.time \in Times
    /\ req' = [op |-> endpoint, symbol |-> symbol, response |-> response]
    /\ ret' = out.ret
    /\ cache' = out.files
    /\ now' = out.time
    /\ fetcher' = out.self
    /\ pc' = "done"
    /\ UNCHANGED df

ServeStockData ==
    /\ pc = "idle"
    /\ \E symbol \in RequestSymbols :
         \E response \in SeriesResponses(fetcher, cache, now, Upper(symbol)) :
           Serve("api_get_stock_data",
                 api_get_stock_data(fetcher, cache, now, symbol, response),
                 symbol, response)

ServeCompanyInfo ==
    /\ pc = "idle"
    /\ \E symbol \in RequestSymbols :
         \E response \in MappingResponses(fetcher, cache, now,
                                          InfoKey(fetcher, Upper(symbol))) :
           Serve("api_get_company_info",
                 api_get_company_info(fetcher, cache, now, symbol, response),
                 symbol, response)

\* The longest frame the technical endpoint is followed on.
MaxRows == 20

ServeTechnicalAnalysis ==
    /\ pc = "idle"
    /\ \E symbol \in RequestSymbols :
         \E response \in SeriesResponses(fetcher, cache, now, Upper(symbol)) :
           /\ fetcher # NoFetcher =>
                LET out == get_stock_data(fetcher, cache, now, Upper(symbol), response)
                IN  out.ret.status = "returned" => Len(out.ret.value.rows) <= MaxRows
           /\ Serve("api_get_technical_analysis",
                    api_get_technical_analysis(fetcher, cache, now, symbol, response),
                    symbol, response)

ServeFundamentalAnalysis ==
    /\ pc = "idle"
    /\ \E symbol \in RequestSymbols :
         \E response \in MappingResponses(fetcher, cache, now,
                                          FinancialsKey(fetcher, Upper(symbol))) :
           Serve("api_get_fundamental_analysis",
                 api_get_fundamental_analysis(fetcher, cache, now, symbol, response),
                 symbol, response)

NextServer ==
    \/ ServeStockData
    \/ ServeCompanyInfo
    \/ ServeTechnicalAnalysis
    \/ ServeFundamentalAnalysis
    \/ Return

SpecServer == InitServer /\ [][NextServer]_vars

(***************************************************************************)
(* Properties of the fundamental engine (checked under SpecFund)           *)
(***************************************************************************)
Range(s) == {s[i] : i \in 1..Len(s)}

Returned(op) == pc = "done" /\ req.op = op

Analyzed == Returned("analyze_company")

\* The integer a snapshot field stands for (0 when absent).
Raw(fd, field) == IF fd[field] = <<>> THEN 0 ELSE fd[field][1]

\* Each report ratio as a fraction of the snapshot's own fields.
ExpNum(fd, key) ==
    CASE key = "pe_ratio"       -> Raw(fd, "price")
      [] key = "pb_ratio"       -> Raw(fd, "price")
      [] key = "peg_ratio"      -> Raw(fd, "price")
      [] key = "roe"            -> 100 * Raw(fd, "net_income")
      [] key = "roa"            -> 100 * Raw(fd, "net_income")
      [] key = "debt_to_equity" -> Raw(fd, "total_debt")
      [] key = "current_ratio"  -> Raw(fd, "current_assets")
      [] key = "dividend_yield" -> 100 * Raw(fd, "annual_dividend")

ExpDen(fd, key) ==
    CASE key = "pe_ratio"       -> Raw(fd, "eps")
      [] key = "pb_ratio"       -> Raw(fd, "book_value_per_share")
      [] key = "peg_ratio"      -> Raw(fd, "eps") * Raw(fd, "earnings_growth_rate")
      [] key = "roe"            -> Raw(fd, "shareholders_equity")
      [] key = "roa"            -> Raw(fd, "total_assets")
      [] key = "debt_to_equity" -> Raw(fd, "shareholders_equity")
      [] key = "current_ratio"  -> Raw(fd, "current_liabilities")
      [] key = "dividend_yield" -> Raw(fd, "price")

\* v is a number of hundredths within half a hundredth of num/den.
IsRounding(v, num, den) ==
    /\ IsFin(v)
    /\ 100 % v.d = 0
    /\ Abs(2 * (v.n * (100 \div v.d) * den - 100 * num)) <= Abs(den)

\* C1 (as stated): roe(150, 1000) returns 15.0, and analyze_company on a
\* snapshot with net_income = 150 and shareholders_equity = 1000 returns
\* signals containing 'Good ROE (>15%)'.
C1_Original ==
    /\ (Returned("roe") /\ req.a = 150 /\ req.b = 1000) => ret = Num(15)
    /\ (Analyzed /\ Raw(req.financial_data, "net_income") = 150
                 /\ Raw(req.financial_data, "shareholders_equity") = 1000)
          => GoodROE \in Range(ret.signals)

\* C1 (amended): roe(150, 1000) returns 15.0; analyze_company on a snapshot
\* with net_income = 150 and shareholders_equity = 1000 reports roe = 15.0
\* and its signals do not contain 'Good ROE (>15%)', the threshold being
\* strict; with net_income = 151 (ROE 15.1) they do.
C1_RoeThresholdStrict ==
    /\ (Returned("roe") /\ req.a = 150 /\ req.b = 1000) => ret = Num(15)
    /\ (Analyzed /\ Raw(req.financial_data, "net_income") = 150
                 /\ Raw(req.financial_data, "shareholders_equity") = 1000)
          => /\ "roe" \in DOMAIN ret.ratios
             /\ ret.ratios["roe"] = Num(15)
             /\ GoodROE \notin Range(ret.signals)
    /\ (Analyzed /\ Raw(req.financial_data, "net_income") = 151
                 /\ Raw(req.financial_data, "shareholders_equity") = 1000)
          => GoodROE \in Range(ret.signals)

C1_Witness ==
    /\ Analyzed
    /\ req.financial_data.net_income = <<150>>
    /\ req.financial_data.shareholders_equity = <<1000>>
    /\ ret.ratios["roe"] = Num(15)

\* C2 (as stated): a ratio is in result['ratios'] exactly when it is defined
\* and its value rounded to 2 decimals is non-zero; no entry equals 0.0; a
\* key is never present when its denominator field is 0 or absent.
C2_Original ==
    Analyzed =>
        \A key \in RatioKeys :
            LET fd  == req.financial_data
                num == ExpNum(fd, key)
                den == ExpDen(fd, key)
            IN  /\ key \in DOMAIN ret.ratios
                      <=> (den # 0 /\ ~IsZero(Round2(Fin(num, den))))
                /\ key \in DOMAIN ret.ratios => ~IsZero(ret.ratios[key])
                /\ den = 0 => key \notin DOMAIN ret.ratios

\* C2 (amended): a ratio is in result['ratios'] exactly when it is defined
\* and its unrounded value is non-zero; the entry is that value rounded to 2
\* decimals, which is 0.0 for a non-zero value below 0.005 in magnitude; a
\* key is never present when its denominator field is 0 or absent.
C2_RatioStoredIffNonZero ==
    Analyzed =>
        \A key \in RatioKeys :
            LET fd  == req.financial_data
                num == ExpNum(fd, key)
                den == ExpDen(fd, key)
            IN  /\ key \in DOMAIN ret.ratios <=> (den # 0 /\ num # 0)
                /\ key \in DOMAIN ret.ratios
                      => IsRounding(ret.ratios[key], num, den)
                /\ den = 0 => key \notin DOMAIN ret.ratios

\* A stored ratio that is 0.0: P/E of 1/1000.
C2_Witness ==
    /\ Analyzed
    /\ "pe_ratio" \in DOMAIN ret.ratios
    /\ IsZero(ret.ratios["pe_ratio"])
    /\ "roe" \notin DOMAIN ret.ratios

\* C3: each of the nine ratio functions returns None exactly when its
\* denominator argument is 0, and otherwise numerator/denominator, times 100
\* for roe, roa, dividend_yield and eps_growth, with
\* eps_growth = 100 * (current - previous) / |previous|; pe_ratio(100, 0) is
\* None and pe_ratio(100, 10) is 10.0.
C3_RatioFormulas ==
    (pc = "done" /\ req.op \in RatioFunctions) =>
        /\ IsNone(ret) <=> req.b = 0
        /\ req.b # 0 =>
              ret = CASE req.op \in {"roe", "roa", "dividend_yield"}
                           -> Fin(100 * req.a, req.b)
                      [] req.op = "eps_growth"
                           -> Fin(100 * (req.a - req.b), Abs(req.b))
                      [] OTHER -> Fin(req.a, req.b)
        /\ (req.op = "pe_ratio" /\ req.a = 100 /\ req.b = 10) => ret = Num(10)

\* eps_growth(10, -10) = 200.0: a negative previous EPS.
C3_Witness ==
    /\ Returned("eps_growth")
    /\ req.a = 10
    /\ req.b = -10
    /\ ret = Num(200)

\* C4 (as stated): Debt/Equity below 0.5 gives 'Low debt-to-equity
\* (financially stable)', above 2 gives 'High debt-to-equity (high
\* leverage)', and in [0.5, 2] neither.
C4_Original ==
    (Analyzed /\ Raw(req.financial_data, "shareholders_equity") # 0) =>
        LET td == Raw(req.financial_data, "total_debt")
            se == Raw(req.financial_data, "shareholders_equity")
            de == Fin(td, se)
        IN  /\ Lt(de, Fin(1, 2)) => LowDE \in Range(ret.signals)
            /\ Gt(de, Num(2)) => HighDE \in Range(ret.signals)
            /\ (Le(Fin(1, 2), de) /\ Le(de, Num(2)))
                  => (LowDE \notin Range(ret.signals)
                      /\ HighDE \notin Range(ret.signals))

\* C5 (as stated): Current Ratio above 1.5 gives 'Good liquidity (CR > 1.5)',
\* below 1 gives 'Low liquidity (CR < 1)', and in [1, 1.5] neither.
C5_Original ==
    (Analyzed /\ Raw(req.financial_data, "current_liabilities") # 0) =>
        LET ca == Raw(req.financial_data, "current_assets")
            cl == Raw(req.financial_data, "current_liabilities")
            cr == Fin(ca, cl)
        IN  /\ Gt(cr, Fin(3, 2)) => GoodLiq \in Range(ret.signals)
            /\ Lt(cr, Num(1)) => LowLiq \in Range(ret.signals)
            /\ (Le(Num(1), cr) /\ Le(cr, Fin(3, 2)))
                  => (GoodLiq \notin Range(ret.signals)
                      /\ LowLiq \notin Range(ret.signals))

\* What each signal group may contribute.
PEGroup  == {<<>>, <<LowPE>>, <<HighPE>>}
ROEGroup == {<<>>, <<GoodROE>>}
DEGroup  == {<<>>, <<LowDE>>, <<HighDE>>}
CRGroup  == {<<>>, <<GoodLiq>>, <<LowLiq>>}

\* The part of a signals list that lies in a group, in order.
Only(s, group) == SelectSeq(s, LAMBDA x : <<x>> \in group)

\* What a group contributes for the ratio num/den: nothing when the ratio is
\* undefined or zero; for P/E and Debt/Equity `first` below the bound an/ad
\* and `second` above bn/bd; for ROE and Current Ratio `first` above an/ad
\* and `second` (if any) below bn/bd.
Banded(num, den, an, ad, first, bn, bd, second) ==
    IF den = 0 \/ num = 0 THEN <<>>
    ELSE LET x     == Fin(num, den)
             above == first \in {<<GoodROE>>, <<GoodLiq>>}
         IN  IF (IF above THEN Gt(x, Fin(an, ad)) ELSE Lt(x, Fin(an, ad)))
             THEN first
             ELSE IF bd # 0 /\ (IF above THEN Lt(x, Fin(bn, bd)) ELSE Gt(x, Fin(bn, bd)))
                  THEN second
                  ELSE <<>>

TechOps ==
    OneSeriesOps \cup {"macd", "bollinger_bands", "stochastic", "obv", "calculate_all"}

\* The trailing window of `period` rows that ends at row i.
Win(i, period) == (i - period + 1)..i

\* Rows of df at which the close fell below, or rose above, the previous one.
Fell(j) == j >= 2 /\ df[j].close < df[j - 1].close
Rose(j) == j >= 2 /\ df[j].close > df[j - 1].close

\* The same for the typical price (high + low + close) / 3.
TpSum(j) == df[j].high + df[j].low + df[j].close
TpFell(j) == j >= 2 /\ TpSum(j) < TpSum(j - 1)
TpRose(j) == j >= 2 /\ TpSum(j) > TpSum(j - 1)

HighestHigh(i, period) ==
    CHOOSE m \in {df[j].high : j \in Win(i, period)} :
        \A j \in Win(i, period) : df[j].high <= m

LowestLow(i, period) ==
    CHOOSE m \in {df[j].low : j \in Win(i, period)} :
        \A j \in Win(i, period) : df[j].low >= m

\* C7: every series an indicator returns, and every column calculate_all
\* returns, is as long as the input, also for an input shorter than the
\* period.
C7_LengthPreserved ==
    (pc = "done" /\ req.op \in TechOps) =>
        \A name \in DOMAIN ret : Len(ret[name]) = Len(df)

\* calculate_all on two bars: shorter than every period it uses but EMA's.
C7_Witness ==
    /\ Returned("calculate_all")
    /\ Len(df) = 2
    /\ Len(ret.rsi) = 2
    /\ Len(ret.sma_200) = 2

C8_Ops == {"sma", "wma", "bollinger_bands", "stochastic", "atr", "adx", "mfi", "rsi"}

\* C8: on an input shorter than the period, SMA, WMA, Bollinger (upper,
\* middle, lower), Stochastic (%K, %D), ATR, ADX, MFI and RSI hold no value
\* at every position.
C8_ShortInputNoValue ==
    (pc = "done" /\ req.op \in C8_Ops /\ Len(df) < req.period) =>
        \A name \in DOMAIN ret :
            \A i \in 1..Len(ret[name]) : IsNaN(ret[name][i])

C8_Witness ==
    /\ Returned("adx")
    /\ req.period = 3
    /\ Len(df) = 2
    /\ Len(ret.value) = 2
    /\ IsNaN(ret.value[1]) /\ IsNaN(ret.value[2])

\* The rows at which ADX divides by zero: ATR is 0, or +DI + -DI is 0.
AdxZeroDenominator(i, period) ==
    LET high  == Col(df, "high")
        low   == Col(df, "low")
        close == Col(df, "close")
    IN  \/ IsZero(atr(high, low, close, period)[i])
        \/ IsZero(Add(plus_di(high, low, close, period)[i],
                      minus_di(high, low, close, period)[i]))

\* C9 (as stated): a position at which the formula's denominator is zero
\* holds no value (NaN), never a finite number or an infinity: RSI where the
\* trailing average loss is 0, MFI where the trailing negative money flow is
\* 0, Stochastic %K where highestHigh = lowestLow, ADX where +DI + -DI = 0
\* or ATR = 0.
C9_Original ==
    /\ Returned("rsi") =>
          \A i \in req.period..Len(df) :
              (\A j \in Win(i, req.period) : ~Fell(j)) => IsNaN(ret.value[i])
    /\ Returned("mfi") =>
          \A i \in req.period..Len(df) :
              (\A j \in Win(i, req.period) : ~TpFell(j)) => IsNaN(ret.value[i])
    /\ Returned("stochastic") =>
          \A i \in req.period..Len(df) :
              HighestHigh(i, req.period) = LowestLow(i, req.period)
                  => IsNaN(ret.k[i])
    /\ Returned("adx") =>
          \A i \in 1..Len(df) :
              AdxZeroDenominator(i, req.period) => IsNaN(ret.value[i])

\* C9 (amended): a position at which the formula's denominator is zero holds
\* no value (NaN) when the numerator is zero too; with a non-zero numerator
\* RSI (average loss 0, average gain > 0) and MFI (negative flow 0, positive
\* flow > 0) hold 100, and Stochastic %K (highestHigh = lowestLow) holds +inf
\* for a close above lowestLow and -inf for a close below it; ADX holds no
\* value wherever +DI + -DI = 0 or ATR = 0.  (Prices and volumes positive.)
C9_ZeroDenominator ==
    /\ Returned("rsi") =>
          \A i \in req.period..Len(df) :
              (\A j \in Win(i, req.period) : ~Fell(j)) =>
                  ret.value[i] = IF \E j \in Win(i, req.period) : Rose(j)
                                 THEN Hundred ELSE NaN
    /\ Returned("mfi") =>
          \A i \in req.period..Len(df) :
              (\A j \in Win(i, req.period) : ~TpFell(j)) =>
                  ret.value[i] = IF \E j \in Win(i, req.period) : TpRose(j)
                                 THEN Hundred ELSE NaN
    /\ Returned("stochastic") =>
          \A i \in req.period..Len(df) :
              HighestHigh(i, req.period) = LowestLow(i, req.period) =>
                  ret.k[i] = IF df[i].close > LowestLow(i, req.period) THEN PInf
                             ELSE IF df[i].close < LowestLow(i, req.period) THEN NInf
                             ELSE NaN
    /\ Returned("adx") =>
          \A i \in 1..Len(df) :
              AdxZeroDenominator(i, req.period) => IsNaN(ret.value[i])

\* %K is infinite: the window's range is empty and the close lies off it.
C9_Witness ==
    /\ Returned("stochastic")
    /\ \E i \in 1..Len(df) :
          /\ i >= req.period
          /\ HighestHigh(i, req.period) = LowestLow(i, req.period)
          /\ IsInf(ret.k[i])

\* C10 (as stated): wherever the trailing average loss is 0 at a position
\* i >= period - 1, rsi returns 100, also when the closes are all equal over
\* the window.
C10_Original ==
    Returned("rsi") =>
        \A i \in req.period..Len(df) :
            (\A j \in Win(i, req.period) : ~Fell(j)) => ret.value[i] = Hundred

\* C10 (amended): wherever the trailing average loss is 0 at a position
\* i >= period - 1, rsi returns 100 if the trailing average gain is positive,
\* and no value (NaN, 0/0) if the closes did not move over the window.
C10_RsiWithoutLoss ==
    Returned("rsi") =>
        \A i \in req.period..Len(df) :
            (\A j \in Win(i, req.period) : ~Fell(j)) =>
                /\ (\E j \in Win(i, req.period) : Rose(j)) => ret.value[i] = Hundred
                /\ (\A j \in Win(i, req.period) : ~Rose(j)) => IsNaN(ret.value[i])

\* RSI(2) of closes that stay, then rise: no value, then 100.
C10_Witness ==
    /\ Returned("rsi")
    /\ req.period = 2
    /\ Len(df) = 3
    /\ IsNaN(ret.value[2])
    /\ ret.value[3] = Hundred

(***************************************************************************)
(* Properties of the indicators of one price series (checked under         *)
(* SpecSeries)                                                             *)
(***************************************************************************)
\* The closes and volumes of the caller's frame, as integers.
Close(i) == df[i].close
Volume(i) == df[i].volume

RECURSIVE CloseSum(_, _)
CloseSum(lo, hi) == IF lo > hi THEN 0 ELSE Close(hi) + CloseSum(lo, hi - 1)

RECURSIVE CloseSquares(_, _)
CloseSquares(lo, hi) ==
    IF lo > hi THEN 0 ELSE Close(hi) * Close(hi) + CloseSquares(lo, hi - 1)

Between(x, lo, hi) == Le(lo, x) /\ Le(x, hi)

\* v[i] continues v[i - 1] as an exponential average of span p over x[i]:
\* (p + 1) * v[i] = 2 * x[i] + (p - 1) * v[i - 1].
EmaStep(v, x, p, i) ==
    /\ IsFin(v[i])
    /\ Mul(Num(p + 1), v[i]) = Add(Mul(Num(2), x[i]), Mul(Num(p - 1), v[i - 1]))

\* C11: for any input series and any period >= 1, every defined value of
\* rsi lies in [0, 100].
C11_RsiBounded ==
    Returned("rsi") =>
        \A i \in 1..Len(ret.value) :
            IsNaN(ret.value[i]) \/ Between(ret.value[i], Zero, Hundred)

\* An RSI strictly inside (0, 100), and one at an end of the range, of a
\* series with a negative close.
C11_Witness ==
    /\ Returned("rsi")
    /\ \E i \in 1..Len(df) : Close(i) < 0
    /\ \E i \in 1..Len(df) : Lt(Zero, ret.value[i]) /\ Lt(ret.value[i], Hundred)
    /\ \E i \in 1..Len(df) : ret.value[i] \in {Zero, Hundred}

\* C12: for any non-empty series and period >= 1, ema is defined at every
\* position from index 0: ema[0] = close[0] (the first value, not a simple
\* average of the first rows) and ema[i] = a * close[i] + (1 - a) * ema[i-1]
\* with a = 2 / (period + 1) for every i >= 1.
C12_EmaRecurrence ==
    (Returned("ema") /\ Len(df) >= 1) =>
        /\ Len(ret.value) = Len(df)
        /\ ret.value[1] = Num(Close(1))
        /\ \A i \in 2..Len(df) :
              EmaStep(ret.value, Col(df, "close"), req.period, i)

\* EMA(3) of the closes 10, 12, 14, 16, 18: 10, 11, 12.5, ...
C12_Witness ==
    /\ Returned("ema")
    /\ req.period = 3
    /\ df = Example
    /\ ret.value[1] = Num(10)
    /\ ret.value[2] = Num(11)
    /\ ret.value[3] = Fin(25, 2)

\* C13: sma(p)[i] is no value for i < p - 1 and the arithmetic mean of
\* close[i-p+1..i] for every i >= p - 1; for the series 10, 12, 14, 16, 18,
\* sma(3) is no value at positions 0 and 1 and 12, 14, 16 at 2, 3, 4.
C13_SmaIsWindowMean ==
    Returned("sma") =>
        /\ \A i \in 1..Len(df) :
              ret.value[i] = IF i < req.period THEN NaN
                             ELSE Fin(CloseSum(i - req.period + 1, i), req.period)
        /\ (df = Example /\ req.period = 3) =>
              ret.value = <<NaN, NaN, Num(12), Num(14), Num(16)>>

C13_Witness ==
    /\ Returned("sma")
    /\ df = Example
    /\ req.period = 3
    /\ IsNaN(ret.value[2])
    /\ ret.value[3] = Num(12)
    /\ ret.value[5] = Num(16)

\* C14: macd returns three series aligned with the input: the MACD line is
\* EMA(fast) - EMA(slow), the signal line is EMA(signal) of the MACD line,
\* and histogram[i] = macdLine[i] - signalLine[i] at every position; all
\* three are defined from index 0, where the histogram is 0.
C14_MacdIdentity ==
    Returned("macd") =>
        LET close == Col(df, "close")
            fast  == ema(close, req.fast_period)
            slow  == ema(close, req.slow_period)
        IN  /\ Len(ret.macd_line) = Len(df)
            /\ Len(ret.signal_line) = Len(df)
            /\ Len(ret.histogram) = Len(df)
            /\ \A i \in 1..Len(df) :
                  /\ IsFin(ret.macd_line[i])
                  /\ IsFin(ret.signal_line[i])
                  /\ IsFin(ret.histogram[i])
                  /\ ret.macd_line[i] = Sub(fast[i], slow[i])
                  /\ ret.histogram[i] = Sub(ret.macd_line[i], ret.signal_line[i])
                  /\ i = 1 => ret.signal_line[1] = ret.macd_line[1]
                  /\ i > 1 => EmaStep(ret.signal_line, ret.macd_line,
                                      req.signal_period, i)
            /\ Len(df) >= 1 => ret.histogram[1] = Zero

\* MACD(2, 3, 2) of the closes 10, 12, ...: the line is 0 then 1/3, the
\* signal 0 then 2/9, the histogram 0 then 1/9.
C14_Witness ==
    /\ Returned("macd")
    /\ df = Example
    /\ req.fast_period = 2 /\ req.slow_period = 3 /\ req.signal_period = 2
    /\ ret.macd_line[2] = Fin(1, 3)
    /\ ret.signal_line[2] = Fin(2, 9)
    /\ ret.histogram[2] = Fin(1, 9)

IntSign(x) == IF x > 0 THEN 1 ELSE IF x < 0 THEN -1 ELSE 0

ClosesNonDecreasing == \A i \in 2..Len(df) : Close(i) >= Close(i - 1)

\* obv is 0 at the first bar and each later step adds
\* sign(close[i] - close[i-1]) * volume[i].
ObvSteps ==
    /\ Len(ret.value) = Len(df)
    /\ Len(df) >= 1 => ret.value[1] = Zero
    /\ \A i \in 2..Len(df) :
          ret.value[i] =
              Add(ret.value[i - 1], Num(IntSign(Close(i) - Close(i - 1)) * Volume(i)))

ObvNonDecreasing == \A i \in 2..Len(df) : Le(ret.value[i - 1], ret.value[i])

\* C15 (as stated): obv is 0 at the first bar, each later step adds
\* sign(close[i] - close[i-1]) * volume[i], and for every input whose closes
\* are non-decreasing the obv series is non-decreasing, whatever the volume
\* values are.
C15_Original ==
    Returned("obv") =>
        /\ ObvSteps
        /\ ClosesNonDecreasing => ObvNonDecreasing

\* C15 (amended): obv is 0 at the first bar, each later step adds
\* sign(close[i] - close[i-1]) * volume[i], and for every input whose closes
\* are non-decreasing and whose volumes are non-negative the obv series is
\* non-decreasing; a negative volume on a rising close lowers it.
C15_ObvMonotoneForVolumes ==
    Returned("obv") =>
        /\ ObvSteps
        /\ (ClosesNonDecreasing /\ \A i \in 1..Len(df) : Volume(i) >= 0)
              => ObvNonDecreasing
        /\ \A i \in 2..Len(df) :
              (Close(i) > Close(i - 1) /\ Volume(i) < 0)
                  => Lt(ret.value[i], ret.value[i - 1])

\* Closes 1, 1, 3 with volumes 2, 2, 3: obv 0, 0, 3.
C15_Witness ==
    /\ Returned("obv")
    /\ Len(df) = 3
    /\ ClosesNonDecreasing
    /\ \A i \in 1..3 : Volume(i) > 0
    /\ Close(2) = Close(1) /\ Close(3) > Close(2)
    /\ ret.value = <<Zero, Zero, Num(3)>>

(***************************************************************************)
(* Properties of the technical engine as a whole (checked under Spec)      *)
(***************************************************************************)
\* The result of the call r on the frame `frame`.
Call(r, frame) ==
    LET high  == Col(frame, "high")
        low   == Col(frame, "low")
        close == Col(frame, "close")
    IN  CASE r.op \in OneSeriesOps -> [value |-> CallIndicator(r.op, frame, r.period)]
          [] r.op = "macd" ->
                macd(close, r.fast_period, r.slow_period, r.signal_period)
          [] r.op = "bollinger_bands" ->
                bollinger_bands(close, r.period, Num(r.std_dev))
          [] r.op = "stochastic" -> stochastic(high, low, close, r.period, r.d_period)
          [] r.op = "obv" -> [value |-> obv(close, Col(frame, "volume"))]
          [] r.op = "calculate_all" -> calculate_all(frame)

\* C16: no indicator looks ahead.  Position i of every returned series (of
\* every column of calculate_all) is what the same call returns at position
\* i on the bars up to i alone; two inputs that agree on the bars at
\* positions <= i therefore produce the same output at i, whatever the bars
\* after i are.
C16_NoLookahead ==
    (pc = "done" /\ req.op \in TechOps) =>
        \A i \in 1..(Len(df) - 1) :
            LET prefix == Call(req, SubSeq(df, 1, i))
            IN  \A name \in DOMAIN ret : ret[name][i] = prefix[name][i]

\* ATR(2) of three bars: defined at the second bar, and changed by the third.
C16_Witness ==
    /\ Returned("atr")
    /\ req.period = 2
    /\ Len(df) = 3
    /\ df[3] # df[2]
    /\ IsFin(ret.value[2])
    /\ ret.value[3] # ret.value[2]

OHLCV == {"open", "high", "low", "close", "volume"}

\* C17: the engine never mutates its input.  A call leaves the caller's
\* frame with the columns and the values it had (calculate_all assigns the
\* indicator columns to a copy), and the open, high, low, close and volume
\* columns calculate_all returns are those of the input.
C17_InputNotMutated ==
    [][(pc = "idle" /\ pc' = "done" /\ req'.op \in TechOps) =>
          /\ df' = df
          /\ \A i \in 1..Len(df') : DOMAIN df'[i] = OHLCV
          /\ req'.op = "calculate_all" =>
                \A name \in OHLCV : ret'[name] = Col(df, name)]_vars

\* calculate_all has returned 30 columns for two bars, and the caller's
\* frame still has its five.
C17_Witness ==
    /\ Returned("calculate_all")
    /\ Len(df) = 2
    /\ DOMAIN df[1] = OHLCV /\ DOMAIN df[2] = OHLCV
    /\ Cardinality(DOMAIN ret) = 30
    /\ ret.close = Col(df, "close")

(***************************************************************************)
(* Properties of calculate_all (checked under SpecAll)                     *)
(***************************************************************************)
IndicatorColumns ==
    {"sma_7", "sma_20", "sma_50", "sma_100", "sma_200",
     "ema_7", "ema_20", "ema_50", "ema_100", "ema_200", "ema_12", "ema_26",
     "rsi", "macd", "macd_signal", "macd_histogram",
     "bb_upper", "bb_middle", "bb_lower", "stoch_k", "stoch_d",
     "atr", "adx", "obv", "mfi"}

\* The trailing mean of n closes at row i, no value before row n.
CloseMean(i, n) == IF i < n THEN NaN ELSE Fin(CloseSum(i - n + 1, i), n)

\* C18: calculate_all returns the original bars plus exactly the columns
\* sma_N and ema_N for N in {7, 20, 50, 100, 200}, ema_12, ema_26, rsi (14),
\* macd / macd_signal / macd_histogram (12, 26, 9), bb_upper / bb_middle /
\* bb_lower (20, 2.0), stoch_k / stoch_d (14, 3), atr (14), adx (14), obv and
\* mfi (14), each aligned with the bars and equal to the standalone
\* indicator on the input's columns; macd[i] = ema_12[i] - ema_26[i] and
\* bb_middle[i] = sma_20[i] at every position.
C18_AllColumns ==
    Returned("calculate_all") =>
        LET high   == Col(df, "high")
            low    == Col(df, "low")
            close  == Col(df, "close")
            volume == Col(df, "volume")
            m      == macd(close, 12, 26, 9)
            bb     == bollinger_bands(close, 20, Num(2))
            st     == stochastic(high, low, close, 14, 3)
        IN  /\ DOMAIN ret = OHLCV \cup IndicatorColumns
            /\ \A name \in DOMAIN ret : Len(ret[name]) = Len(df)
            /\ \A name \in OHLCV : ret[name] = Col(df, name)
            /\ ret.sma_7 = sma(close, 7)     /\ ret.ema_7 = ema(close, 7)
            /\ ret.sma_20 = sma(close, 20)   /\ ret.ema_20 = ema(close, 20)
            /\ ret.sma_50 = sma(close, 50)   /\ ret.ema_50 = ema(close, 50)
            /\ ret.sma_100 = sma(close, 100) /\ ret.ema_100 = ema(close, 100)
            /\ ret.sma_200 = sma(close, 200) /\ ret.ema_200 = ema(close, 200)
            /\ ret.ema_12 = ema(close, 12)   /\ ret.ema_26 = ema(close, 26)
            /\ ret.rsi = rsi(close, 14)
            /\ ret.macd = m.macd_line
            /\ ret.macd_signal = m.signal_line
            /\ ret.macd_histogram = m.histogram
            /\ ret.bb_upper = bb.upper_band
            /\ ret.bb_middle = bb.middle_band
            /\ ret.bb_lower = bb.lower_band
            /\ ret.stoch_k = st.k /\ ret.stoch_d = st.d
            /\ ret.atr = atr(high, low, close, 14)
            /\ ret.adx = adx(high, low, close, 14)
            /\ ret.obv = obv(close, volume)
            /\ ret.mfi = mfi(high, low, close, volume, 14)
            /\ \A i \in 1..Len(df) :
                  /\ ret.macd[i] = Sub(ret.ema_12[i], ret.ema_26[i])
                  /\ ret.macd_histogram[i] = Sub(ret.macd[i], ret.macd_signal[i])
                  /\ ret.bb_middle[i] = ret.sma_20[i]
                  /\ ret.sma_7[i] = CloseMean(i, 7)
                  /\ ret.sma_20[i] = CloseMean(i, 20)
                  /\ ret.sma_50[i] = CloseMean(i, 50)
                  /\ ret.sma_100[i] = CloseMean(i, 100)
                  /\ ret.sma_200[i] = CloseMean(i, 200)
                  /\ IsFin(ret.bb_upper[i]) =>
                        /\ ret.bb_upper[i].sgn = 1
                        /\ ret.bb_upper[i].rad =
                              Fin(4 * (20 * CloseSquares(i - 19, i)
                                         - CloseSum(i - 19, i) * CloseSum(i - 19, i)),
                                  20 * 19)

\* 27 bars, the last one with a new close: the columns of periods up to 26
\* hold values at the last bar, ADX(14) its first one.
C18_Witness ==
    /\ Returned("calculate_all")
    /\ Len(df) = 27
    /\ Close(26) # Close(27)
    /\ IsFin(ret.sma_20[27]) /\ IsFin(ret.rsi[27]) /\ IsFin(ret.adx[27])
    /\ IsFin(ret.stoch_d[27]) /\ IsFin(ret.atr[27]) /\ IsFin(ret.mfi[27])
    /\ IsFin(ret.bb_upper[27]) /\ ~IsZero(ret.bb_upper[27].rad)
    /\ IsNaN(ret.adx[26]) /\ IsNaN(ret.sma_50[27])
    /\ ~IsZero(ret.macd[27]) /\ ~IsZero(ret.macd_histogram[27])

(***************************************************************************)
(* Properties of bollinger_bands (checked under SpecSeries)                *)
(***************************************************************************)
\* The sample variance (ddof = 1) of the p closes that end at row i, p >= 2.
CloseVariance(i, p) ==
    Fin(p * CloseSquares(i - p + 1, i) - CloseSum(i - p + 1, i) * CloseSum(i - p + 1, i),
        p * (p - 1))

\* At row i the three bands hold values: the middle one is the mean of the
\* p closes, the upper one lies k * std above it and the lower one k * std
\* below it (std^2 the sample variance), so upper - middle = middle - lower,
\* and lower <= middle <= upper for k >= 0.
BandsAt(i, p, k) ==
    LET upper  == ret.upper_band[i]
        middle == ret.middle_band[i]
        lower  == ret.lower_band[i]
    IN  /\ IsFin(upper) /\ IsFin(middle) /\ IsFin(lower)
        /\ middle = CloseMean(i, p)
        /\ upper.n = middle.n /\ upper.d = middle.d
        /\ lower.n = middle.n /\ lower.d = middle.d
        /\ upper.rad = Mul(Num(k * k), CloseVariance(i, p))
        /\ lower.rad = upper.rad
        /\ upper.sgn = IntSign(k)
        /\ lower.sgn = -upper.sgn
        /\ ~Lt(upper.rad, Zero)
        /\ k >= 0 => upper.sgn >= 0 /\ lower.sgn <= 0

\* C19 (as stated): for every series, period p and k, at every position
\* i >= p - 1 the three bands are defined, with middle = SMA(p), upper =
\* middle + k * std and lower = middle - k * std (sample standard deviation),
\* upper - middle = middle - lower, and lower <= middle <= upper when k >= 0.
C19_Original ==
    Returned("bollinger_bands") =>
        \A i \in req.period..Len(df) : BandsAt(i, req.period, req.std_dev)

\* C19 (amended): the same for every period p >= 2, and before position
\* p - 1 none of the three bands holds a value; for p = 1 the sample standard
\* deviation of a single close does not exist: upper and lower hold no value
\* at every position, and middle is the close.
C19_BandsAroundMean ==
    Returned("bollinger_bands") =>
        /\ Len(ret.upper_band) = Len(df)
        /\ Len(ret.middle_band) = Len(df)
        /\ Len(ret.lower_band) = Len(df)
        /\ \A i \in 1..Len(df) :
              /\ ret.middle_band[i] = CloseMean(i, req.period)
              /\ (req.period >= 2 /\ i >= req.period) =>
                    BandsAt(i, req.period, req.std_dev)
              /\ (req.period = 1 \/ i < req.period) =>
                    IsNaN(ret.upper_band[i]) /\ IsNaN(ret.lower_band[i])

\* Bands (3, 2.0) of the closes 10, 12, 14, ...: middle 12, std 2, upper 16
\* and lower 8 at the third bar.
C19_Witness ==
    /\ Returned("bollinger_bands")
    /\ df = Example
    /\ req.period = 3 /\ req.std_dev = 2
    /\ ret.middle_band[3] = Num(12)
    /\ ret.upper_band[3] = Band(Num(12), 1, Num(16))
    /\ ret.lower_band[3] = Band(Num(12), -1, Num(16))
    /\ IsNaN(ret.upper_band[2])


(***************************************************************************)
(* Properties of the fetchers (checked under SpecFetch)                    *)
(***************************************************************************)
FetcherOps == {"get_stock_data", "get_company_info", "get_financials"}

\* The call in progress has returned or raised.
Fetched(op) == pc = "done" /\ req.op = op

\* A fault of the upstream: the request failed, or the body reports an error
\* or lacks the expected members.
UpstreamFault(response) ==
    \/ response.kind = "fault"
    \/ response.kind = "body" /\ response.json \in {ErrorBody, PlainBody}

\* "No data": an empty series from get_stock_data, an empty mapping from the
\* two other methods, and no exception.
NoData(op, result) ==
    /\ result.status = "returned"
    /\ IF op = "get_stock_data"
       THEN result.value.type = "frame" /\ Len(result.value.rows) = 0
       ELSE result.value.type = "object" /\ DOMAIN result.value.members = {}

\* C20: every upstream fault during a provider call (network error, API
\* error code, payload without the expected fields) is reported to the
\* caller as no data: get_stock_data returns an empty series,
\* get_company_info and get_financials return an empty mapping, and no
\* exception leaves the fetcher, in TwelveDataFetcher as in SectorsFetcher.
C20_Original ==
    \A op \in FetcherOps :
        Fetched(op) /\ UpstreamFault(req.response) => NoData(op, ret)

\* The rows of a frame are in order of time, equal times allowed.
Chronological(frame) ==
    \A i \in 1..(Len(frame.rows) - 1) :
        frame.rows[i].timestamp <= frame.rows[i + 1].timestamp

KeyOf(op, self, symbol) ==
    CASE op = "get_stock_data"   -> StockKey(self, symbol)
      [] op = "get_company_info" -> InfoKey(self, symbol)
      [] op = "get_financials"   -> FinancialsKey(self, symbol)

MaxAgeOf(op) == IF op = "get_stock_data" THEN 3600 ELSE 86400

\* The step is a call of a fetcher method that finds nothing to use in the
\* cache, and so calls _rate_limit.
CallsRateLimit ==
    /\ pc = "idle" /\ pc' = "done"
    /\ req'.op \in FetcherOps
    /\ ~Hit(cache, KeyOf(req'.op, fetcher, req'.symbol), MaxAgeOf(req'.op), now)

\* C25: the times two consecutive _rate_limit calls of a fetcher store in
\* last_request_time are at least rate_limit_delay apart; a call less than
\* rate_limit_delay after the previous one waits for the remainder, a later
\* call does not wait, and last_request_time never decreases.
C25_RateLimit ==
    [][/\ fetcher'.last_request_time >= fetcher.last_request_time
       /\ CallsRateLimit =>
            /\ fetcher'.last_request_time = now'
            /\ fetcher'.last_request_time - fetcher.last_request_time
                   >= fetcher.rate_limit_delay
            /\ IF now - fetcher.last_request_time < fetcher.rate_limit_delay
               THEN now' = fetcher.last_request_time + fetcher.rate_limit_delay
               ELSE now' = now]_vars

\* A second request has been made, a second after the first.
C25_Witness ==
    /\ pc = "done"
    /\ req.op \in FetcherOps
    /\ req.response.kind = "fault"
    /\ fetcher.last_request_time = 2
    /\ now = 2

\* The cache holds a file under the key that is not older than max_age, can
\* be read and holds a non-empty value.
Usable(files, cache_key, max_age_seconds, time) ==
    /\ cache_key \in DOMAIN files
    /\ time - files[cache_key].mtime <= max_age_seconds
    /\ files[cache_key].content.type \in {"array", "object"}
    /\ JsonLen(files[cache_key].content) > 0

\* The files the read of the cache leaves: an expired file is gone.
AfterRead(files, cache_key, max_age_seconds, time) ==
    IF cache_key \in DOMAIN files /\ time - files[cache_key].mtime > max_age_seconds
    THEN [k \in DOMAIN files \ {cache_key} |-> files[k]]
    ELSE files

\* The call ends in an error path of the method: the except branch, or in
\* TwelveDataFetcher.get_stock_data the branches of an API error code and of
\* a body without 'values'.
ErrorPath(op, self, response) ==
    \/ response.kind = "fault"
    \/ /\ op = "get_stock_data"
       /\ self.class = "TwelveDataFetcher"
       /\ response.kind = "body"
       /\ response.json \in {ErrorBody, PlainBody}

\* C26: the three methods call _rate_limit and go on to the upstream (or to
\* the demo data) exactly when _read_cache gives None or an empty value; on
\* a non-empty entry that has not expired they return the cached value,
\* make no request and leave last_request_time alone. So a cached empty
\* result is fetched again on every call, and the result of an error path
\* is never written to the cache.
C26_CacheGate ==
    [][pc = "idle" /\ pc' = "done" /\ req'.op \in FetcherOps =>
        LET op        == req'.op
            cache_key == KeyOf(op, fetcher, req'.symbol)
        IN  IF Usable(cache, cache_key, MaxAgeOf(op), now)
            THEN /\ ret' = Returns(IF op = "get_stock_data"
                                   THEN DataFrame(cache[cache_key].content.items)
                                   ELSE cache[cache_key].content)
                 /\ req'.response = NoRequest
                 /\ fetcher' = fetcher
                 /\ now' = now
                 /\ cache' = cache
            ELSE /\ fetcher'.last_request_time = now'
                 /\ now' >= fetcher.last_request_time + fetcher.rate_limit_delay
                 /\ req'.response = NoRequest
                        => op = "get_stock_data" /\ ~HasApiKey(fetcher)
                           /\ ret' = Returns(generate_demo_data(req'.symbol))
                 /\ ErrorPath(op, fetcher, req'.response)
                        => cache' = AfterRead(cache, cache_key, MaxAgeOf(op), now)]_vars

\* An empty list sits in the cache, not expired, and the call has asked the
\* upstream all the same.
C26_Witness ==
    /\ Fetched("get_stock_data")
    /\ req.response.kind = "fault"
    /\ KeyOf("get_stock_data", fetcher, req.symbol) \in DOMAIN cache
    /\ cache[KeyOf("get_stock_data", fetcher, req.symbol)].content = Array(<<>>)
    /\ now - cache[KeyOf("get_stock_data", fetcher, req.symbol)].mtime <= 3600

(***************************************************************************)
(* Properties of the cache (checked under SpecCache)                       *)
(***************************************************************************)
\* C22: _read_cache(key, max_age) returns the last written value while the
\* age of the entry is at most max_age and None when it is older; the read
\* of an expired entry deletes it. Stated on the call that has just
\* returned: once _write_cache has returned, a read at either lifetime
\* gives the value written; after a read, an entry that is still there is
\* not older than max_age, and the read of an absent entry gave None.
C22_Original ==
    /\ pc = "done" /\ req.op = "write_cache"
       => \A max_age_seconds \in MaxAges :
              read_cache(cache, req.cache_key, max_age_seconds, now).value = req.data
    /\ pc = "done" /\ req.op = "read_cache"
       => IF req.cache_key \in DOMAIN cache
          THEN now - cache[req.cache_key].mtime <= req.max_age_seconds
          ELSE ret.value = PyNone

(***************************************************************************)
(* Properties of the HTTP layer (checked under SpecServer)                 *)
(***************************************************************************)
ServerOps ==
    {"api_get_stock_data", "api_get_company_info", "api_get_technical_analysis",
     "api_get_fundamental_analysis"}

Served(endpoint) == pc = "done" /\ req.op = endpoint

\* A value of a response is a finite number or null.
FiniteOrNull(value) == value.k \in {"fin", "none"}

\* C23: in the response of get_technical_analysis every indicator value of
\* every record of 'data' and every field of 'summary' is a finite number
\* or null: NaN and the infinities of the engine are never emitted.
C23_FiniteOrNull ==
    Served("api_get_technical_analysis") /\ ret.status_code = 200 =>
        /\ \A i \in 1..Len(ret.body.data) :
               \A name \in DOMAIN ret.body.data[i] :
                   FiniteOrNull(ret.body.data[i][name])
        /\ \A name \in DOMAIN ret.body.summary : FiniteOrNull(ret.body.summary[name])

\* The engine gave +inf for %K and NaN for the 50-day average of the last
\* day, and the response holds null for both, next to an RSI of 100.
C23_Witness ==
    /\ Served("api_get_technical_analysis")
    /\ ret.status_code = 200
    /\ Len(ret.body.data) = QuoteLen
    /\ ret.body.data[QuoteLen].close = Num(2)
    /\ ret.body.data[QuoteLen].stoch_k = None
    /\ ret.body.data[QuoteLen].sma_50 = None
    /\ ret.body.summary.sma_50 = None
    /\ ret.body.summary.rsi = Num(100)
    /\ LET frame == normalize_dataframe(
                        WithTimestamp(DataFrame(req.response.json.members.values),
                                      "datetime"))
           result == calculate_all(frame.rows)
       IN  /\ result.stoch_k[QuoteLen] = PInf
           /\ IsNaN(result.sma_50[QuoteLen])

\* What the fetcher hands the endpoint in the step.
FetchedBy(endpoint, self, files, time, symbol, response) ==
    CASE endpoint \in {"api_get_stock_data", "api_get_technical_analysis"}
           -> get_stock_data(self, files, time, symbol, response).ret
      [] endpoint = "api_get_company_info"
           -> get_company_info(self, files, time, symbol, response).ret
      [] endpoint = "api_get_fundamental_analysis"
           -> get_financials(self, files, time, symbol, response).ret

\* An empty series, or an empty mapping or list.
EmptyResult(value) ==
    CASE value.type = "frame"  -> value.rows = <<>>
      [] value.type = "array"  -> value.items = <<>>
      [] value.type = "object" -> DOMAIN value.members = {}
      [] OTHER                 -> TRUE

\* The engine of the endpoint raises on what was fetched.
EngineRaises(endpoint, value) ==
    \/ endpoint = "api_get_technical_analysis"
         /\ ~({"high", "low", "close", "volume"} \subseteq value.columns)
    \/ endpoint = "api_get_fundamental_analysis" /\ value.type # "object"

\* C24: on the four endpoints, without a fetcher the response is 503 and
\* nothing is called; an empty series or mapping from the fetcher gives 404
\* (never 500); any other exception while fetching or computing gives 500;
\* and the engine runs only on a non-empty result.
C24_StatusCodes ==
    [][pc = "idle" /\ pc' = "done" /\ req'.op \in ServerOps =>
        IF fetcher = NoFetcher
        THEN /\ ret' = HTTPException(503)
             /\ UNCHANGED <<fetcher, cache, now>>
        ELSE LET fetched == FetchedBy(req'.op, fetcher, cache, now,
                                      Upper(req'.symbol), req'.response)
             IN  IF fetched.status = "raised"
                 THEN ret' = HTTPException(500)
                 ELSE IF EmptyResult(fetched.value)
                 THEN ret' = HTTPException(404)
                 ELSE IF EngineRaises(req'.op, fetched.value)
                 THEN ret' = HTTPException(500)
                 ELSE /\ ret'.status_code = 200
                      /\ req'.op = "api_get_technical_analysis"
                             => Len(ret'.body.data) = Len(fetched.value.rows)
                      /\ req'.op = "api_get_fundamental_analysis"
                             => ret'.body.raw_data = fetched.value]_vars

\* The upstream failed, the fetcher gave an empty mapping and the endpoint
\* answered 404.
C24_Witness ==
    /\ Served("api_get_company_info")
    /\ req.response.kind = "fault"
    /\ ret = HTTPException(404)

(***************************************************************************)
(* Signals and stored ratios of analyze_company (checked under SpecFund)   *)
(***************************************************************************)
\* C27: in every report of analyze_company a signal is present only if the
\* ratio it is about is in result['ratios']: a P/E signal implies the key
\* 'pe_ratio', 'Good ROE (>15%)' implies 'roe', a Debt/Equity signal implies
\* 'debt_to_equity', a liquidity signal implies 'current_ratio'; a snapshot
\* with no recognised field gives empty ratios and empty signals.
C27_SignalsHaveRatios ==
    Analyzed =>
        LET signals == Range(ret.signals)
            ratios  == DOMAIN ret.ratios
        IN  /\ signals \cap {LowPE, HighPE} # {} => "pe_ratio" \in ratios
            /\ GoodROE \in signals => "roe" \in ratios
            /\ signals \cap {LowDE, HighDE} # {} => "debt_to_equity" \in ratios
            /\ signals \cap {GoodLiq, LowLiq} # {} => "current_ratio" \in ratios
            /\ req.financial_data = NoFields
                   => ret.ratios = <<>> /\ ret.signals = <<>>

\* A report with one signal of each of the four groups.
C27_Witness ==
    /\ Analyzed
    /\ Len(ret.signals) = 4
    /\ {"pe_ratio", "roe", "debt_to_equity", "current_ratio"} \subseteq DOMAIN ret.ratios

====
